---- MODULE Spec2Model ----
(***************************************************************************)
(* Multi-carrier tracker: the five server variants of the repository       *)
(*   app.js lines 1-132      POST /api/track   (USE_SCRAPE, FedEx only)    *)
(*   app.js lines 135-416    GET /track/:carrier (result cache, scrapers)  *)
(*   unnamed/part_000        POST /api/track   (extractStatusAndEta)       *)
(*   unnamed/part_001        GET /api/track    (USE_SCRAPE, sanitize)      *)
(*   server.js               GET /api/track    (USE_SCRAPE)                *)
(* A JavaScript string is a sequence of characters, each character a       *)
(* one-token TLA+ string.  Accented letters and the no-break space are     *)
(* written as the ASCII tokens "a'", "E'", "n~", "nbsp", ...               *)
(***************************************************************************)
EXTENDS Integers, Sequences, FiniteSets, TLC

\* ----------------------------------------------------------------------
\* JavaScript values and string primitives
\* ----------------------------------------------------------------------

\* null and undefined: one-element sequences no string can equal.
NULL == <<"null">>
UNDEFINED == <<"undefined">>

UpperSeq == <<"A","B","C","D","E","F","G","H","I","J","K","L","M","N","O","P","Q","R","S","T","U","V","W","X","Y","Z","A'","E'","I'","O'","U'","N~">>
LowerSeq == <<"a","b","c","d","e","f","g","h","i","j","k","l","m","n","o","p","q","r","s","t","u","v","w","x","y","z","a'","e'","i'","o'","u'","n~">>
UpperAZ == {UpperSeq[i] : i \in 1..26}
LowerAZ == {LowerSeq[i] : i \in 1..26}
Digit == {"0","1","2","3","4","5","6","7","8","9"}
WordChar == UpperAZ \cup LowerAZ \cup Digit \cup {"_"}
WhiteSpace == {" ", "\t", "\n", "\r", "nbsp"}

\* String.prototype.toLowerCase, character by character.
toLowerChar(c) ==
  IF \E i \in DOMAIN UpperSeq : UpperSeq[i] = c
  THEN LowerSeq[CHOOSE i \in DOMAIN UpperSeq : UpperSeq[i] = c]
  ELSE c

toUpperChar(c) ==
  IF \E i \in DOMAIN LowerSeq : LowerSeq[i] = c
  THEN UpperSeq[CHOOSE i \in DOMAIN LowerSeq : LowerSeq[i] = c]
  ELSE c

\* a function over 1..n as an evaluated sequence
AsSeq(f) == f \o << >>

toLowerCase(s) == AsSeq([i \in 1..Len(s) |-> toLowerChar(s[i])])

\* String.prototype.trim: drop leading and trailing white space.
trim(s) ==
  LET keep == {i \in 1..Len(s) : s[i] \notin WhiteSpace}
  IN IF keep = {} THEN << >>
     ELSE LET lo == CHOOSE i \in keep : \A j \in keep : i <= j
              hi == CHOOSE i \in keep : \A j \in keep : j <= i
          IN SubSeq(s, lo, hi)

\* String.prototype.includes
includes(s, sub) ==
  \E i \in 1..(Len(s) - Len(sub) + 1) : SubSeq(s, i, i + Len(sub) - 1) = sub

\* JavaScript truthiness of a string-or-null value: null, undefined and ""
\* are falsy.
truthy(v) == v # NULL /\ v # UNDEFINED /\ v # << >>

\* a || b
orElse(a, b) == IF truthy(a) THEN a ELSE b

\* ----------------------------------------------------------------------
\* Regular expressions (the subset the repository uses), matched the way
\* the JavaScript engine does: leftmost start, alternatives in order,
\* greedy or lazy repetition with backtracking, numbered capture groups.
\* ----------------------------------------------------------------------

\* no upper limit on a repetition (*, +, {n,})
Inf == 10 ^ 6

Eps == [k |-> "eps"]
Bol == [k |-> "bol"]
Wb == [k |-> "wb"]
Cls(S) == [k |-> "cls", set |-> S, neg |-> FALSE]
NCls(S) == [k |-> "cls", set |-> S, neg |-> TRUE]
ClsI(S) == Cls(S \cup {toLowerChar(c) : c \in S} \cup {toUpperChar(c) : c \in S})
Cat(rs) == [k |-> "seq", rs |-> rs]
Alt(rs) == [k |-> "alt", rs |-> rs]
Rep(r, lo, hi) == [k |-> "rep", r |-> r, lo |-> lo, hi |-> hi, lazy |-> FALSE]
Lazy(r, lo, hi) == [k |-> "rep", r |-> r, lo |-> lo, hi |-> hi, lazy |-> TRUE]
Grp(n, r) == [k |-> "grp", n |-> n, r |-> r]
Lit(s) == [k |-> "lit", s |-> s, ci |-> FALSE]
LitI(s) == [k |-> "lit", s |-> toLowerCase(s), ci |-> TRUE]

\* no regular expression of the repository has more than three groups
NoCaps == <<UNDEFINED, UNDEFINED, UNDEFINED>>

isWordAt(t, i) == i >= 1 /\ i <= Len(t) /\ t[i] \in WordChar

RECURSIVE Flatten(_)
Flatten(ss) == IF Len(ss) = 0 THEN << >> ELSE Head(ss) \o Flatten(Tail(ss))

\* the lists of a function over 1..n, joined in order
Flat(f) == Flatten(AsSeq(f))

\* M(r, t, i, caps): the ways r matches t from position i, best first; each
\* is [e |-> the position after the match, c |-> the capture groups].
RECURSIVE M(_, _, _, _)
RECURSIVE MSeq(_, _, _, _)
RECURSIVE MRep(_, _, _, _, _)

M(r, t, i, caps) ==
  CASE r.k = "eps" -> << [e |-> i, c |-> caps] >>
    [] r.k = "bol" -> IF i = 1 THEN << [e |-> i, c |-> caps] >> ELSE << >>
    [] r.k = "wb"  -> IF isWordAt(t, i - 1) # isWordAt(t, i)
                      THEN << [e |-> i, c |-> caps] >> ELSE << >>
    [] r.k = "cls" -> IF i <= Len(t) /\ ((t[i] \in r.set) # r.neg)
                      THEN << [e |-> i + 1, c |-> caps] >> ELSE << >>
    [] r.k = "lit" ->
         LET e == i + Len(r.s)
             got == SubSeq(t, i, e - 1)
         IN IF e <= Len(t) + 1 /\ (IF r.ci THEN toLowerCase(got) ELSE got) = r.s
            THEN << [e |-> e, c |-> caps] >> ELSE << >>
    [] r.k = "seq" -> MSeq(r.rs, t, i, caps)
    [] r.k = "alt" -> Flat([j \in 1..Len(r.rs) |-> M(r.rs[j], t, i, caps)])
    [] r.k = "rep" ->
         IF r.r.k = "cls"
         THEN \* a repeated character class: the run of matching characters
              LET ok(j) == (t[j] \in r.r.set) # r.r.neg
                  run == CHOOSE n \in 0..(Len(t) - i + 1) :
                           /\ \A j \in i..(i + n - 1) : ok(j)
                           /\ (i + n <= Len(t) => ~ok(i + n))
                  top == IF run < r.hi THEN run ELSE r.hi
                  cnt == IF top >= r.lo THEN top - r.lo + 1 ELSE 0
              IN AsSeq([j \in 1..cnt |->
                    [e |-> i + (IF r.lazy THEN r.lo + j - 1 ELSE top - j + 1),
                     c |-> caps]])
         ELSE MRep(r, t, i, caps, 0)
    [] r.k = "grp" ->
         LET inner == M(r.r, t, i, caps)
         IN AsSeq([j \in 1..Len(inner) |->
               [e |-> inner[j].e,
                c |-> [inner[j].c EXCEPT ![r.n] = SubSeq(t, i, inner[j].e - 1)]]])

MSeq(rs, t, i, caps) ==
  IF Len(rs) = 0 THEN << [e |-> i, c |-> caps] >>
  ELSE LET first == M(Head(rs), t, i, caps)
       IN Flat([j \in 1..Len(first) |-> MSeq(Tail(rs), t, first[j].e, first[j].c)])

MRep(r, t, i, caps, count) ==
  LET stop == IF count >= r.lo THEN << [e |-> i, c |-> caps] >> ELSE << >>
      once == IF count < r.hi THEN M(r.r, t, i, caps) ELSE << >>
      \* an iteration that consumes nothing is refused once lo is reached
      more == Flat([j \in 1..Len(once) |->
                 IF once[j].e > i \/ count < r.lo
                 THEN MRep(r, t, once[j].e, once[j].c, count + 1)
                 ELSE << >>])
  IN IF r.lazy THEN stop \o more ELSE more \o stop

NoMatch == [found |-> FALSE]

\* the match array of a match of t that starts at index, best being the
\* first way the expression matches there
matchArray(t, index, best) ==
  [found |-> TRUE, index |-> index, end |-> best.e,
   g0 |-> SubSeq(t, index, best.e - 1), g |-> best.c]

\* The leftmost match of re in t starting at or after position from: the
\* start positions are tried in order, ways being the matches at from.
RECURSIVE matchFrom(_, _, _)
RECURSIVE matchOrAdvance(_, _, _, _)

matchOrAdvance(t, re, from, ways) ==
  IF Len(ways) > 0 THEN matchArray(t, from, Head(ways))
  ELSE matchFrom(t, re, from + 1)

matchFrom(t, re, from) ==
  IF from > Len(t) + 1 THEN NoMatch
  ELSE matchOrAdvance(t, re, from, M(re, t, from, NoCaps))

\* String.prototype.match(re) without the g flag: the match array of the
\* leftmost match, m[0] as g0 and the groups as g[1..]; NoMatch for null.
match(t, re) == matchFrom(t, re, 1)

\* RegExp.prototype.test
test(re, t) == match(t, re).found

\* text.match(re)?.[n]
grp(t, re, n) ==
  LET m == match(t, re) IN IF m.found THEN m.g[n] ELSE UNDEFINED

\* text.match(re)?.[0]
grp0(t, re) ==
  LET m == match(t, re) IN IF m.found THEN m.g0 ELSE UNDEFINED

\* String.prototype.replace(re, by) with the g flag: every match, left to
\* right, each search resuming where the previous match ended (one
\* character further after an empty match).
RECURSIVE replaceFrom(_, _, _, _)
RECURSIVE replaceMatch(_, _, _, _, _)

replaceMatch(t, re, by, from, m) ==
  IF ~m.found THEN SubSeq(t, from, Len(t))
  ELSE IF m.end > m.index
       THEN SubSeq(t, from, m.index - 1) \o by \o replaceFrom(t, re, by, m.end)
       ELSE IF m.index > Len(t) THEN SubSeq(t, from, Len(t)) \o by
            ELSE SubSeq(t, from, m.index - 1) \o by \o <<t[m.index]>>
                 \o replaceFrom(t, re, by, m.index + 1)

replaceFrom(t, re, by, from) == replaceMatch(t, re, by, from, matchFrom(t, re, from))

replaceAll(t, re, by) == replaceFrom(t, re, by, 1)
\* ----------------------------------------------------------------------
\* Carrier registry: officialLink (four copies) and the scrapers table
\* ----------------------------------------------------------------------

\* Fixed texts the code never looks inside (URL prefixes, error messages)
\* are kept as one token each.

UriUnreserved == UpperAZ \cup LowerAZ \cup Digit \cup {"-", "_", ".", "!", "~", "*", "'", "(", ")"}

\* The UTF-8 percent-escape of one character outside the unreserved set.
PercentEncode(c) ==
  CASE c = " "  -> <<"%","2","0">>
    [] c = "/"  -> <<"%","2","F">>
    [] c = ":"  -> <<"%","3","A">>
    [] c = "?"  -> <<"%","3","F">>
    [] c = "&"  -> <<"%","2","6">>
    [] c = "="  -> <<"%","3","D">>
    [] c = "#"  -> <<"%","2","3">>
    [] c = "%"  -> <<"%","2","5">>
    [] c = "+"  -> <<"%","2","B">>
    [] c = ","  -> <<"%","2","C">>
    [] c = "\t" -> <<"%","0","9">>
    [] c = "\n" -> <<"%","0","A">>
    [] c = "\r" -> <<"%","0","D">>
    [] c = "nbsp" -> <<"%","C","2","%","A","0">>
    [] c = "a'" -> <<"%","C","3","%","A","1">>
    [] c = "e'" -> <<"%","C","3","%","A","9">>
    [] c = "i'" -> <<"%","C","3","%","A","D">>
    [] c = "o'" -> <<"%","C","3","%","B","3">>
    [] c = "u'" -> <<"%","C","3","%","B","A">>
    [] c = "n~" -> <<"%","C","3","%","B","1">>
    [] c = "A'" -> <<"%","C","3","%","8","1">>
    [] c = "E'" -> <<"%","C","3","%","8","9">>
    [] c = "I'" -> <<"%","C","3","%","8","D">>
    [] c = "O'" -> <<"%","C","3","%","9","3">>
    [] c = "U'" -> <<"%","C","3","%","9","A">>
    [] c = "N~" -> <<"%","C","3","%","9","1">>

encodeURIComponent(s) ==
  Flat([i \in 1..Len(s) |->
             IF s[i] \in UriUnreserved THEN <<s[i]>> ELSE PercentEncode(s[i])])

DhlUrl(code) == <<"https://www.dhl.com/mx-es/home/rastreo.html?tracking-id=">> \o encodeURIComponent(code)
FedexUrl(code) == <<"https://www.fedex.com/fedextrack/?trknbr=">> \o encodeURIComponent(code) \o <<"&cntry_code=mx_esp">>
UpsUrl(code) == <<"https://www.ups.com/track?loc=es_MX&tracknum=">> \o encodeURIComponent(code) \o <<"&requester=ST/">>
DeltaUrl(code) == <<"https://www.deltacargo.com/Cargo/trackShipment?airbillnumber=">> \o encodeURIComponent(code)
ExpeditorsUrl == <<"https://www.expeditors.com/tracking">>

\* app.js (POST /api/track): no "deltacargo" case.
officialLink_app(carrier, code) ==
  LET c == toLowerCase(orElse(carrier, << >>))
  IN CASE c = <<"d","h","l">> -> DhlUrl(code)
       [] c = <<"f","e","d","e","x">> -> FedexUrl(code)
       [] c = <<"u","p","s">> -> UpsUrl(code)
       [] c \in {<<"d","e","l","t","a">>, <<"d","e","l","t","a","-","c","a","r","g","o">>} -> DeltaUrl(code)
       [] c = <<"e","x","p","e","d","i","t","o","r","s">> -> ExpeditorsUrl
       [] OTHER -> NULL

\* server.js
officialLink_server(carrier, code) ==
  LET c == toLowerCase(orElse(carrier, << >>))
  IN CASE c = <<"d","h","l">> -> DhlUrl(code)
       [] c = <<"f","e","d","e","x">> -> FedexUrl(code)
       [] c = <<"u","p","s">> -> UpsUrl(code)
       [] c \in {<<"d","e","l","t","a">>, <<"d","e","l","t","a","-","c","a","r","g","o">>, <<"d","e","l","t","a","c","a","r","g","o">>} -> DeltaUrl(code)
       [] c = <<"e","x","p","e","d","i","t","o","r","s">> -> ExpeditorsUrl
       [] OTHER -> NULL

\* unnamed/part_000: carrier.toLowerCase() (the caller has checked !carrier)
officialLink_part000(carrier, code) ==
  LET c == toLowerCase(carrier)
  IN CASE c = <<"d","h","l">> -> DhlUrl(code)
       [] c = <<"f","e","d","e","x">> -> FedexUrl(code)
       [] c = <<"u","p","s">> -> UpsUrl(code)
       [] c \in {<<"d","e","l","t","a">>, <<"d","e","l","t","a","-","c","a","r","g","o">>, <<"d","e","l","t","a","c","a","r","g","o">>} -> DeltaUrl(code)
       [] c = <<"e","x","p","e","d","i","t","o","r","s">> -> ExpeditorsUrl
       [] OTHER -> NULL

\* unnamed/part_001
officialLink_part001(carrier, code) ==
  LET c == toLowerCase(orElse(carrier, << >>))
  IN CASE c = <<"d","h","l">> -> DhlUrl(code)
       [] c = <<"f","e","d","e","x">> -> FedexUrl(code)
       [] c = <<"u","p","s">> -> UpsUrl(code)
       [] c \in {<<"d","e","l","t","a">>, <<"d","e","l","t","a","-","c","a","r","g","o">>, <<"d","e","l","t","a","c","a","r","g","o">>} -> DeltaUrl(code)
       [] c = <<"e","x","p","e","d","i","t","o","r","s">> -> ExpeditorsUrl
       [] OTHER -> NULL

\* app.js (GET /track/:carrier): the scrapers object.  scrapers[carrier] is a
\* plain property read: an own key gives its scraper function, any other
\* name is looked up on Object.prototype.
scrapersOwn == {<<"d","h","l">>, <<"f","e","d","e","x">>, <<"u","p","s">>, <<"d","e","l","t","a">>, <<"e","x","p","e","d","i","t","o","r","s">>}

\* Of Object.prototype's members the model keeps three: constructor (the
\* Object function), hasOwnProperty and the __proto__ accessor (an object,
\* not a function).
scrapersGet(carrier) ==
  CASE carrier \in scrapersOwn -> [type |-> "scraper", name |-> carrier]
    [] carrier = <<"c","o","n","s","t","r","u","c","t","o","r">> -> [type |-> "function", name |-> "Object"]
    [] carrier = <<"h","a","s","O","w","n","P","r","o","p","e","r","t","y">> -> [type |-> "function", name |-> "hasOwnProperty"]
    [] carrier = <<"_","_","p","r","o","t","o","_","_">> -> [type |-> "object", name |-> "Object.prototype"]
    [] OTHER -> [type |-> "undefined"]

\* ----------------------------------------------------------------------
\* Field extraction
\* ----------------------------------------------------------------------

\* a || b || c || ... over a sequence of values; the last one stands when
\* every earlier one is falsy.
RECURSIVE firstTruthy(_)
firstTruthy(vs) ==
  IF Len(vs) = 1 THEN vs[1]
  ELSE IF truthy(vs[1]) THEN vs[1] ELSE firstTruthy(Tail(vs))

\* ---- unnamed/part_000: extractStatusAndEta ----

statusCandidates == <<
  LitI(<<"e","n","t","r","e","g","a","d","o">>),
  LitI(<<"e","n"," ","t","r","a'","n","s","i","t","o">>),
  LitI(<<"e","n"," ","c","a","m","i","n","o">>),
  LitI(<<"r","e","c","o","g","i","d","o">>),
  LitI(<<"l","i","s","t","o"," ","p","a","r","a"," ","e","n","t","r","e","g","a">>),
  LitI(<<"d","e","m","o","r","a","d","o">>),
  LitI(<<"d","e","l","i","v","e","r","e","d">>),
  LitI(<<"o","u","t"," ","f","o","r"," ","d","e","l","i","v","e","r","y">>),
  LitI(<<"i","n"," ","t","r","a","n","s","i","t">>),
  LitI(<<"p","i","c","k","e","d"," ","u","p">>),
  LitI(<<"d","e","l","a","y","e","d">>) >>

\* each ETA pattern with the number of its capture groups (m.length - 1)
etaRegexes == <<
  [re |-> Cat(<<LitI(<<"e","n","t","r","e","g","a"," ">>), Grp(1, Alt(<<LitI(<<"e","s","t","i","m","a","d","a">>), LitI(<<"p","r","e","v","i","s","t","a">>), LitI(<<"p","r","o","g","r","a","m","a","d","a">>)>>)), Rep(Cls(WhiteSpace), 0, Inf), Rep(Cls({":","-"}), 0, 1), Rep(Cls(WhiteSpace), 0, Inf), Grp(2, Cat(<<Rep(Cls(Digit), 1, 2), Cls({"/"}), Rep(Cls(Digit), 1, 2), Cls({"/"}), Rep(Cls(Digit), 2, 4)>>))>>), groups |-> 2],
  [re |-> Cat(<<Grp(1, Alt(<<LitI(<<"f","e","c","h","a">>), LitI(<<"e","n","t","r","e","g","a">>)>>)), Cls({" "}), Grp(2, Alt(<<LitI(<<"e","s","t","i","m","a","d","a">>), LitI(<<"p","r","e","v","i","s","t","a">>), LitI(<<"p","r","o","g","r","a","m","a","d","a">>)>>)), Rep(Cls(WhiteSpace), 0, Inf), Rep(Cls({":","-"}), 0, 1), Rep(Cls(WhiteSpace), 0, Inf), Grp(3, Cat(<<Rep(ClsI(UpperAZ \cup LowerAZ \cup {"A'","E'","I'","O'","U'","N~"}), 1, Inf), Rep(Cls({"."}), 0, 1), Rep(Cls(WhiteSpace), 0, Inf), Rep(Cls(Digit), 1, 2), Rep(Cls({","}), 0, 1), Rep(Cls(WhiteSpace), 0, Inf), Rep(Cls(Digit), 4, 4)>>))>>), groups |-> 3],
  [re |-> Cat(<<Grp(1, Alt(<<LitI(<<"e","s","t","i","m","a","t","e","d">>), LitI(<<"s","c","h","e","d","u","l","e","d">>)>>)), Rep(Cls(WhiteSpace), 0, Inf), LitI(<<"d","e","l","i","v","e","r","y">>), Rep(Cls(WhiteSpace), 0, Inf), Rep(Cls({":","-"}), 0, 1), Rep(Cls(WhiteSpace), 0, Inf), Grp(2, Cat(<<Rep(ClsI(UpperAZ \cup LowerAZ), 1, Inf), Rep(Cls(WhiteSpace), 0, Inf), Rep(Cls(Digit), 1, 2), Rep(Cls({","}), 0, 1), Rep(Cls(WhiteSpace), 0, Inf), Rep(Cls(Digit), 4, 4)>>))>>), groups |-> 2],
  [re |-> Cat(<<Grp(1, Alt(<<LitI(<<"e","s","t","i","m","a","t","e","d">>), LitI(<<"s","c","h","e","d","u","l","e","d">>)>>)), Rep(Cls(WhiteSpace), 0, Inf), LitI(<<"d","e","l","i","v","e","r","y">>), Rep(Cls(WhiteSpace), 0, Inf), Rep(Cls({":","-"}), 0, 1), Rep(Cls(WhiteSpace), 0, Inf), Grp(2, Cat(<<Rep(Cls(Digit), 1, 2), Cls({"/"}), Rep(Cls(Digit), 1, 2), Cls({"/"}), Rep(Cls(Digit), 2, 4)>>))>>), groups |-> 2] >>

\* Array.prototype.find over a list of patterns: the index of the first
\* one that tests true, 0 when none does.
findFirst(res, text) ==
  LET hits == {j \in 1..Len(res) : test(res[j], text)}
  IN IF hits = {} THEN 0 ELSE CHOOSE j \in hits : \A k \in hits : j <= k

\* extractStatusAndEta taking the first capture group of the ETA pattern
\* (the labelling word) where the code takes the last
statusAndEtaOf_firstGroup(text) ==
  LET found == findFirst(statusCandidates, text)
      status == IF found # 0 THEN match(text, statusCandidates[found]).g0 ELSE NULL
      eta == findFirst([j \in 1..Len(etaRegexes) |-> etaRegexes[j].re], text)
      etaText == IF eta = 0 THEN NULL
                 ELSE match(text, etaRegexes[eta].re).g[1]
  IN [status |-> status, etaText |-> etaText]

\* the body of extractStatusAndEta once text is known
statusAndEtaOf(text) ==
  LET found == findFirst(statusCandidates, text)
      status == IF found # 0 THEN match(text, statusCandidates[found]).g0 ELSE NULL
      eta == findFirst([j \in 1..Len(etaRegexes) |-> etaRegexes[j].re], text)
      etaText == IF eta = 0 THEN NULL
                 ELSE match(text, etaRegexes[eta].re).g[etaRegexes[eta].groups]
  IN [status |-> status, etaText |-> etaText]

extractStatusAndEta(bigText) ==
  CHOOSE r \in {statusAndEtaOf(text) :
                  text \in {trim(replaceAll(bigText, Rep(Cls(WhiteSpace), 1, Inf), <<" ">>))}} : TRUE

\* ---- app.js (GET /track/:carrier): extractDate, extractStatus ----

\* The pattern is built from a template literal, in which \b is a backspace
\* character and \d, \s are the letters d and s.
dateRegex == Cat(<<Cls({"bksp"}), Grp(1, Rep(ClsI({"d"}), 1, 2)), Rep(ClsI({"s"}), 1, Inf), Grp(2, Alt(<<LitI(<<"J","a","n","u","a","r","y">>), LitI(<<"F","e","b","r","u","a","r","y">>), LitI(<<"M","a","r","c","h">>), LitI(<<"A","p","r","i","l">>), LitI(<<"M","a","y">>), LitI(<<"J","u","n","e">>), LitI(<<"J","u","l","y">>), LitI(<<"A","u","g","u","s","t">>), LitI(<<"S","e","p","t","e","m","b","e","r">>), LitI(<<"O","c","t","o","b","e","r">>), LitI(<<"N","o","v","e","m","b","e","r">>), LitI(<<"D","e","c","e","m","b","e","r">>), LitI(<<"E","n","e","r","o">>), LitI(<<"F","e","b","r","e","r","o">>), LitI(<<"M","a","r","z","o">>), LitI(<<"A","b","r","i","l">>), LitI(<<"M","a","y","o">>), LitI(<<"J","u","n","i","o">>), LitI(<<"J","u","l","i","o">>), LitI(<<"A","g","o","s","t","o">>), LitI(<<"S","e","p","t","i","e","m","b","r","e">>), LitI(<<"O","c","t","u","b","r","e">>), LitI(<<"N","o","v","i","e","m","b","r","e">>), LitI(<<"D","i","c","i","e","m","b","r","e">>), LitI(<<"J","a","n">>), LitI(<<"F","e","b">>), LitI(<<"M","a","r">>), LitI(<<"A","p","r">>), LitI(<<"M","a","y">>), LitI(<<"J","u","n">>), LitI(<<"J","u","l">>), LitI(<<"A","u","g">>), LitI(<<"S","e","p">>), LitI(<<"O","c","t">>), LitI(<<"N","o","v">>), LitI(<<"D","e","c">>), LitI(<<"E","n","e">>), LitI(<<"F","e","b">>), LitI(<<"M","a","r">>), LitI(<<"A","b","r">>), LitI(<<"M","a","y">>), LitI(<<"J","u","n">>), LitI(<<"J","u","l">>), LitI(<<"A","g","o">>), LitI(<<"S","e","p">>), LitI(<<"O","c","t">>), LitI(<<"N","o","v">>), LitI(<<"D","i","c">>)>>)), Rep(ClsI({"s"}), 1, Inf), Grp(3, Rep(ClsI({"d"}), 4, 4)), Cls({"bksp"})>>)

extractDate(text) ==
  LET m == match(text, dateRegex)
  IN IF m.found THEN trim(m.g0) ELSE NULL

statuses == <<
  <<"D","e","l","i","v","e","r","e","d">>, <<"O","u","t"," ","f","o","r"," ","d","e","l","i","v","e","r","y">>, <<"I","n"," ","T","r","a","n","s","i","t">>, <<"I","n"," ","t","r","a","n","s","i","t">>,
  <<"S","h","i","p","p","e","d">>, <<"S","h","i","p","m","e","n","t"," ","i","n","f","o","r","m","a","t","i","o","n"," ","r","e","c","e","i","v","e","d">>,
  <<"E","n","t","r","e","g","a","d","o">>, <<"E","n"," ","r","e","p","a","r","t","o">>, <<"E","n"," ","t","r","a'","n","s","i","t","o">>, <<"E","n"," ","t","r","a","n","s","i","t","o">>,
  <<"E","n"," ","C","a","m","i","n","o">>, <<"R","e","c","i","b","i","d","o">>, <<"D","e","s","p","a","c","h","a","d","o">>, <<"E","n"," ","c","a","m","i","n","o">> >>

\* new RegExp(status, 'i').test(text) for each entry in order; the entry
\* itself is returned, not the text that matched.
extractStatus(text) ==
  LET hits == {j \in 1..Len(statuses) : test(LitI(statuses[j]), text)}
  IN IF hits = {} THEN NULL
     ELSE statuses[CHOOSE j \in hits : \A k \in hits : j <= k]

\* The body of every scraper of this variant after its page interaction:
\* { latest_status: extractStatus(bodyText || '') || 'Unknown',
\*   latest_date: extractDate(bodyText || '') }
scrapeResult_track(bodyText) ==
  [latest_status |-> orElse(extractStatus(orElse(bodyText, << >>)), <<"U","n","k","n","o","w","n">>),
   latest_date |-> extractDate(orElse(bodyText, << >>))]

\* ---- app.js (POST /api/track): scrapeFedEx ----

scrapeFedEx_app(text) ==
  [status |-> firstTruthy(<<
     grp(text, Cat(<<LitI(<<"E","s","t","a","d","o"," ","d","e"," ","l","a"," ","e","n","t","r","e","g","a">>), Rep(Cls(WhiteSpace), 0, Inf), Grp(1, Rep(NCls({"\n"}), 1, Inf))>>), 1),
     grp0(text, Cat(<<Wb, LitI(<<"E","n","t","r","e","g","a","d","o">>), Wb>>)),
     grp0(text, Cat(<<Wb, LitI(<<"D","e","l","i","v","e","r","e","d">>), Wb>>)), NULL >>),
   deliveredAt |-> firstTruthy(<<
     grp(text, Cat(<<LitI(<<"E","n","t","r","e","g","a","d","o">>), Rep(Cls(WhiteSpace), 1, Inf), LitI(<<"E","l">>), Rep(Cls(WhiteSpace), 1, Inf), Grp(1, Rep(NCls({"\n"}), 1, Inf))>>), 1),
     grp(text, Cat(<<LitI(<<"D","e","l","i","v","e","r","e","d">>), Rep(Cls(WhiteSpace), 1, Inf), LitI(<<"o","n">>), Rep(Cls(WhiteSpace), 1, Inf), Grp(1, Rep(NCls({"\n"}), 1, Inf))>>), 1), NULL >>),
   signedBy |-> firstTruthy(<<
     grp(text, Cat(<<LitI(<<"F","i","r","m","a","d","o"," ","p","o","r">>), Rep(Cls(WhiteSpace \cup {":"}), 1, Inf), Grp(1, Rep(ClsI(UpperAZ \cup WhiteSpace \cup {"A'","E'","I'","O'","U'","N~","."}), 1, Inf))>>), 1),
     grp(text, Cat(<<LitI(<<"S","i","g","n","e","d"," ","b","y">>), Rep(Cls(WhiteSpace \cup {":"}), 1, Inf), Grp(1, Rep(ClsI(UpperAZ \cup LowerAZ \cup WhiteSpace \cup {"."}), 1, Inf))>>), 1), NULL >>),
   eta |-> firstTruthy(<<
     grp(text, Cat(<<LitI(<<"E","n","t","r","e","g","a"," ">>), Alt(<<LitI(<<"e","s","t","i","m","a","d","a">>), LitI(<<"p","r","e","v","i","s","t","a">>), LitI(<<"p","r","o","g","r","a","m","a","d","a">>)>>), Rep(Cls(WhiteSpace), 0, Inf), Rep(Cls({":","-"}), 0, 1), Rep(Cls(WhiteSpace), 0, Inf), Grp(1, Rep(NCls({"\n"}), 1, Inf))>>), 1),
     grp(text, Cat(<<LitI(<<"E","s","t","i","m","a","t","e","d"," ","d","e","l","i","v","e","r","y">>), Rep(Cls(WhiteSpace), 0, Inf), Rep(Cls({":","-"}), 0, 1), Rep(Cls(WhiteSpace), 0, Inf), Grp(1, Rep(NCls({"\n"}), 1, Inf))>>), 1), NULL >>)]

\* ---- server.js: readBodyText and the five scrapers ----

\* buf.replace(/\u00A0/g, " ").replace(/[ \t]+/g, " ")
readBodyText_server(buf) ==
  replaceAll(replaceAll(buf, Cls({"nbsp"}), <<" ">>), Rep(Cls({" ","\t"}), 1, Inf), <<" ">>)

scrapeFedEx_server(text) ==
  [status |-> firstTruthy(<<
     grp(text, Cat(<<LitI(<<"E","s","t","a","d","o"," ","d","e"," ","l","a"," ","e","n","t","r","e","g","a">>), Rep(Cls(WhiteSpace), 0, Inf), Grp(1, Rep(NCls({"\n"}), 1, Inf))>>), 1),
     grp0(text, Cat(<<Wb, LitI(<<"E","n","t","r","e","g","a","d","o">>), Wb>>)),
     grp0(text, Cat(<<Wb, LitI(<<"E","n"," ","c","a","m","i","n","o">>), Wb>>)),
     grp0(text, Cat(<<Wb, LitI(<<"D","e","l","i","v","e","r","e","d">>), Wb>>)), NULL >>),
   deliveredAt |-> firstTruthy(<<
     grp(text, Cat(<<LitI(<<"E","n","t","r","e","g","a","d","o">>), Rep(Cls(WhiteSpace), 0, Inf), Alt(<<LitI(<<"e","l">>), LitI(<<"o","n">>)>>), Rep(Cls(WhiteSpace), 0, Inf), Grp(1, Rep(NCls({"\n"}), 1, Inf))>>), 1),
     grp(text, Cat(<<LitI(<<"D","e","l","i","v","e","r","e","d">>), Rep(Cls(WhiteSpace), 0, Inf), LitI(<<"o","n">>), Rep(Cls(WhiteSpace), 0, Inf), Grp(1, Rep(NCls({"\n"}), 1, Inf))>>), 1), NULL >>),
   signedBy |-> firstTruthy(<<
     grp(text, Cat(<<LitI(<<"F","i","r","m","a","d","o"," ","p","o","r">>), Rep(Cls(WhiteSpace \cup {":"}), 1, Inf), Grp(1, Rep(ClsI(UpperAZ \cup WhiteSpace \cup {"A'","E'","I'","O'","U'","N~","."}), 1, Inf))>>), 1),
     grp(text, Cat(<<LitI(<<"S","i","g","n","e","d"," ","b","y">>), Rep(Cls(WhiteSpace \cup {":"}), 1, Inf), Grp(1, Rep(ClsI(UpperAZ \cup LowerAZ \cup WhiteSpace \cup {"."}), 1, Inf))>>), 1), NULL >>),
   eta |-> firstTruthy(<<
     grp(text, Cat(<<LitI(<<"E","n","t","r","e","g","a"," ">>), Alt(<<LitI(<<"e","s","t","i","m","a","d","a">>), LitI(<<"p","r","e","v","i","s","t","a">>), LitI(<<"p","r","o","g","r","a","m","a","d","a">>)>>), Rep(Cls(WhiteSpace), 0, Inf), Rep(Cls({":","-"}), 0, 1), Rep(Cls(WhiteSpace), 0, Inf), Grp(1, Rep(NCls({"\n"}), 1, Inf))>>), 1),
     grp(text, Cat(<<LitI(<<"E","s","t","i","m","a","t","e","d"," ","d","e","l","i","v","e","r","y">>), Rep(Cls(WhiteSpace), 0, Inf), Rep(Cls({":","-"}), 0, 1), Rep(Cls(WhiteSpace), 0, Inf), Grp(1, Rep(NCls({"\n"}), 1, Inf))>>), 1), NULL >>),
   origin |-> firstTruthy(<<
     grp(text, Cat(<<Wb, LitI(<<"D","E","S","D","E">>), Wb, Rep(Cls(WhiteSpace), 0, Inf), Grp(1, Rep(ClsI(UpperAZ \cup {"A'","E'","I'","O'","U'","N~"," ",",","-"}), 1, Inf))>>), 1),
     grp(text, Cat(<<Wb, LitI(<<"F","R","O","M">>), Wb, Rep(Cls(WhiteSpace), 0, Inf), Grp(1, Rep(ClsI(UpperAZ \cup {" ",",","-"}), 1, Inf))>>), 1), NULL >>),
   destination |-> firstTruthy(<<
     grp(text, Cat(<<Wb, LitI(<<"D","E","S","T","I","N","O">>), Wb, Rep(Cls(WhiteSpace), 0, Inf), Grp(1, Rep(ClsI(UpperAZ \cup {"A'","E'","I'","O'","U'","N~"," ",",","-"}), 1, Inf))>>), 1),
     grp(text, Cat(<<Wb, LitI(<<"T","O">>), Wb, Rep(Cls(WhiteSpace), 0, Inf), Grp(1, Rep(ClsI(UpperAZ \cup {" ",",","-"}), 1, Inf))>>), 1), NULL >>)]

scrapeDHL_server(text) ==
  [status |-> firstTruthy(<<
     grp(text, Cat(<<LitI(<<"E","s","t","a","d","o">>), Rep(Cls(WhiteSpace), 0, Inf), Rep(Cls({":","-"}), 0, 1), Rep(Cls(WhiteSpace), 0, Inf), Grp(1, Rep(NCls({"\n"}), 1, Inf))>>), 1),
     grp0(text, Cat(<<Wb, LitI(<<"E","n","t","r","e","g","a","d","o">>), Wb>>)),
     grp0(text, Cat(<<Wb, LitI(<<"E","n"," ","t","r","a'","n","s","i","t","o">>), Wb>>)), NULL >>),
   eta |-> firstTruthy(<<
     grp(text, Cat(<<LitI(<<"F","e","c","h","a"," ","d","e"," ","e","n","t","r","e","g","a"," ">>), Alt(<<LitI(<<"e","s","t","i","m","a","d","a">>), LitI(<<"p","r","e","v","i","s","t","a">>)>>), Rep(Cls(WhiteSpace), 0, Inf), Rep(Cls({":","-"}), 0, 1), Rep(Cls(WhiteSpace), 0, Inf), Grp(1, Rep(NCls({"\n"}), 1, Inf))>>), 1),
     grp(text, Cat(<<LitI(<<"E","s","t","i","m","a","t","e","d"," ","d","e","l","i","v","e","r","y">>), Rep(Cls(WhiteSpace), 0, Inf), Rep(Cls({":","-"}), 0, 1), Rep(Cls(WhiteSpace), 0, Inf), Grp(1, Rep(NCls({"\n"}), 1, Inf))>>), 1), NULL >>),
   deliveredAt |-> firstTruthy(<<
     grp(text, Cat(<<LitI(<<"E","n","t","r","e","g","a","d","o">>), Rep(Cls(WhiteSpace), 0, Inf), Alt(<<LitI(<<"e","l">>), LitI(<<"o","n">>)>>), Rep(Cls(WhiteSpace), 0, Inf), Grp(1, Rep(NCls({"\n"}), 1, Inf))>>), 1), NULL >>)]

scrapeUPS_server(text) ==
  [status |-> firstTruthy(<<
     grp(text, Cat(<<LitI(<<"E","s","t","a","d","o">>), Rep(Cls(WhiteSpace), 0, Inf), Rep(Cls({":","-"}), 0, 1), Rep(Cls(WhiteSpace), 0, Inf), Grp(1, Rep(NCls({"\n"}), 1, Inf))>>), 1),
     grp0(text, Cat(<<Wb, LitI(<<"E","n","t","r","e","g","a","d","o">>), Wb>>)),
     grp0(text, Cat(<<Wb, LitI(<<"E","n"," ","t","r","a'","n","s","i","t","o">>), Wb>>)),
     grp0(text, Cat(<<Wb, LitI(<<"D","e","l","i","v","e","r","e","d">>), Wb>>)),
     grp0(text, Cat(<<Wb, LitI(<<"I","n"," ","T","r","a","n","s","i","t">>), Wb>>)), NULL >>),
   eta |-> firstTruthy(<<
     grp(text, Cat(<<LitI(<<"E","n","t","r","e","g","a"," ">>), Alt(<<LitI(<<"e","s","t","i","m","a","d","a">>), LitI(<<"p","r","e","v","i","s","t","a">>)>>), Rep(Cls(WhiteSpace), 0, Inf), Rep(Cls({":","-"}), 0, 1), Rep(Cls(WhiteSpace), 0, Inf), Grp(1, Rep(NCls({"\n"}), 1, Inf))>>), 1),
     grp(text, Cat(<<LitI(<<"E","s","t","i","m","a","t","e","d"," ","D","e","l","i","v","e","r","y">>), Rep(Cls(WhiteSpace), 0, Inf), Rep(Cls({":","-"}), 0, 1), Rep(Cls(WhiteSpace), 0, Inf), Grp(1, Rep(NCls({"\n"}), 1, Inf))>>), 1), NULL >>),
   deliveredAt |-> firstTruthy(<<
     grp(text, Cat(<<LitI(<<"E","n","t","r","e","g","a","d","o">>), Rep(Cls(WhiteSpace), 0, Inf), Alt(<<LitI(<<"e","l">>), LitI(<<"o","n">>)>>), Rep(Cls(WhiteSpace), 0, Inf), Grp(1, Rep(NCls({"\n"}), 1, Inf))>>), 1),
     grp(text, Cat(<<LitI(<<"D","e","l","i","v","e","r","e","d">>), Rep(Cls(WhiteSpace), 0, Inf), LitI(<<"o","n">>), Rep(Cls(WhiteSpace), 0, Inf), Grp(1, Rep(NCls({"\n"}), 1, Inf))>>), 1), NULL >>),
   signedBy |-> firstTruthy(<<
     grp(text, Cat(<<LitI(<<"F","i","r","m","a","d","o"," ","p","o","r">>), Rep(Cls(WhiteSpace \cup {":"}), 1, Inf), Grp(1, Rep(ClsI(UpperAZ \cup WhiteSpace \cup {"A'","E'","I'","O'","U'","N~","."}), 1, Inf))>>), 1),
     grp(text, Cat(<<LitI(<<"S","i","g","n","e","d"," ","b","y">>), Rep(Cls(WhiteSpace \cup {":"}), 1, Inf), Grp(1, Rep(ClsI(UpperAZ \cup LowerAZ \cup WhiteSpace \cup {"."}), 1, Inf))>>), 1), NULL >>)]

scrapeDeltaCargo_server(text) ==
  [status |-> firstTruthy(<<
     grp(text, Cat(<<LitI(<<"E","s","t","a","d","o">>), Rep(Cls(WhiteSpace), 0, Inf), Rep(Cls({":","-"}), 0, 1), Rep(Cls(WhiteSpace), 0, Inf), Grp(1, Rep(NCls({"\n"}), 1, Inf))>>), 1),
     grp0(text, Alt(<<LitI(<<"E","n"," ","t","r","a'","n","s","i","t","o">>), LitI(<<"E","n","t","r","e","g","a","d","o">>), LitI(<<"L","i","s","t","o"," ","p","a","r","a"," ","r","e","t","i","r","o">>)>>)), NULL >>),
   eta |-> firstTruthy(<<
     grp(text, Cat(<<LitI(<<"F","e","c","h","a"," ">>), Alt(<<LitI(<<"e","s","t","i","m","a","d","a">>), LitI(<<"p","r","e","v","i","s","t","a">>)>>), Rep(Cls(WhiteSpace), 0, Inf), Rep(Cls({":","-"}), 0, 1), Rep(Cls(WhiteSpace), 0, Inf), Grp(1, Rep(NCls({"\n"}), 1, Inf))>>), 1), NULL >>),
   lastScan |-> firstTruthy(<<
     grp(text, Cat(<<Alt(<<LitI(<<"U'","l","t","i","m","a"," ","a","c","t","u","a","l","i","z","a","c","i","o'","n">>), LitI(<<"L","a","s","t"," ","u","p","d","a","t","e">>)>>), Rep(Cls(WhiteSpace), 0, Inf), Rep(Cls({":","-"}), 0, 1), Rep(Cls(WhiteSpace), 0, Inf), Grp(1, Rep(NCls({"\n"}), 1, Inf))>>), 1), NULL >>)]

scrapeExpeditors_server(text) ==
  [status |-> firstTruthy(<<
     grp(text, Cat(<<LitI(<<"S","t","a","t","u","s">>), Rep(Cls(WhiteSpace), 0, Inf), Rep(Cls({":","-"}), 0, 1), Rep(Cls(WhiteSpace), 0, Inf), Grp(1, Rep(NCls({"\n"}), 1, Inf))>>), 1),
     grp0(text, Alt(<<LitI(<<"E","n","t","r","e","g","a","d","o">>), LitI(<<"E","n"," ","t","r","a'","n","s","i","t","o">>), LitI(<<"L","i","s","t","o">>)>>)), NULL >>)]

\* ---- unnamed/part_001: sanitize, cap and the five scrapers ----

sanitize(text) ==
  trim(replaceAll(replaceAll(replaceAll(replaceAll(orElse(text, << >>),
         Cls({"nbsp"}), <<" ">>),
         Rep(Cls({" ","\t"}), 1, Inf), <<" ">>),
         LitI(<<"s","k","i","p"," ","t","o"," ","m","a","i","n"," ","c","o","n","t","e","n","t">>), << >>),
         LitI(<<"i","r"," ","a","l"," ","c","o","n","t","e","n","i","d","o"," ","p","r","i","n","c","i","p","a","l">>), << >>))

\* const cap = (s) => (s ? s.trim().replace(/\s{2,}/g, " ") : s)
cap(s) == IF truthy(s) THEN replaceAll(trim(s), Rep(Cls(WhiteSpace), 2, Inf), <<" ">>) ELSE s

\* if (destination && /main content/i.test(destination)) destination = null
dropBoilerplate(destination) ==
  IF truthy(destination) /\ test(LitI(<<"m","a","i","n"," ","c","o","n","t","e","n","t">>), destination) THEN NULL
  ELSE destination

\* a variant of fedexDestination that tries the in-transit banners and the
\* TO line first
fedexDestination_transitFirst(text) ==
  LET transit == cap(firstTruthy(<<
        grp(text, Cat(<<Alt(<<Bol, Cls({"\n"})>>), Rep(Cls(WhiteSpace), 0, Inf), Lit(<<"L","I","S","T","O"," ","P","A","R","A"," ","L","A"," ","E","N","T","R","E","G","A">>), Rep(Cls(WhiteSpace), 0, Inf), Grp(1, Rep(Cls(UpperAZ \cup {"A'","E'","I'","O'","U'","N~"," ",",",".","-"}), 1, Inf)), Wb>>), 1),
        grp(text, Cat(<<Alt(<<Bol, Cls({"\n"})>>), Rep(Cls(WhiteSpace), 0, Inf), Lit(<<"E","N"," ","C","A","M","I","N","O">>), Rep(Cls(WhiteSpace), 0, Inf), Grp(1, Rep(Cls(UpperAZ \cup {"A'","E'","I'","O'","U'","N~"," ",",",".","-"}), 1, Inf)), Wb>>), 1),
        grp(text, Cat(<<Alt(<<Bol, Cls({"\n"})>>), Rep(Cls(WhiteSpace), 0, Inf), Lit(<<"T","O">>), Rep(Cls(WhiteSpace), 0, Inf), Grp(1, Rep(Cls(UpperAZ \cup {" ",",",".","-"}), 1, Inf)), Wb>>), 1) >>))
  IN IF ~truthy(transit)
     THEN cap(firstTruthy(<<
            grp(text, Cat(<<Alt(<<Bol, Cls({"\n"})>>), Rep(Cls(WhiteSpace), 0, Inf), Lit(<<"E","N","T","R","E","G","A","D","O">>), Rep(Cls(WhiteSpace), 0, Inf), Grp(1, Rep(Cls(UpperAZ \cup {"A'","E'","I'","O'","U'","N~"," ",",",".","-"}), 1, Inf)), Wb>>), 1) >>))
     ELSE transit

\* scrapeFedEx, the destination before the boilerplate re-check: the
\* delivered banner first, the in-transit banners and the TO line only when
\* it gave nothing.
fedexDestination(text) ==
  LET delivered == cap(firstTruthy(<<
        grp(text, Cat(<<Alt(<<Bol, Cls({"\n"})>>), Rep(Cls(WhiteSpace), 0, Inf), Lit(<<"E","N","T","R","E","G","A","D","O">>), Rep(Cls(WhiteSpace), 0, Inf), Grp(1, Rep(Cls(UpperAZ \cup {"A'","E'","I'","O'","U'","N~"," ",",",".","-"}), 1, Inf)), Wb>>), 1) >>))
  IN IF ~truthy(delivered)
     THEN cap(firstTruthy(<<
            grp(text, Cat(<<Alt(<<Bol, Cls({"\n"})>>), Rep(Cls(WhiteSpace), 0, Inf), Lit(<<"L","I","S","T","O"," ","P","A","R","A"," ","L","A"," ","E","N","T","R","E","G","A">>), Rep(Cls(WhiteSpace), 0, Inf), Grp(1, Rep(Cls(UpperAZ \cup {"A'","E'","I'","O'","U'","N~"," ",",",".","-"}), 1, Inf)), Wb>>), 1),
            grp(text, Cat(<<Alt(<<Bol, Cls({"\n"})>>), Rep(Cls(WhiteSpace), 0, Inf), Lit(<<"E","N"," ","C","A","M","I","N","O">>), Rep(Cls(WhiteSpace), 0, Inf), Grp(1, Rep(Cls(UpperAZ \cup {"A'","E'","I'","O'","U'","N~"," ",",",".","-"}), 1, Inf)), Wb>>), 1),
            grp(text, Cat(<<Alt(<<Bol, Cls({"\n"})>>), Rep(Cls(WhiteSpace), 0, Inf), Lit(<<"T","O">>), Rep(Cls(WhiteSpace), 0, Inf), Grp(1, Rep(Cls(UpperAZ \cup {" ",",",".","-"}), 1, Inf)), Wb>>), 1) >>))
     ELSE delivered

scrapeFedEx_part001(text) ==
  [status |-> cap(firstTruthy(<<
     grp(text, Cat(<<Alt(<<Bol, Cls({"\n"})>>), Rep(Cls(WhiteSpace), 0, Inf), LitI(<<"E","s","t","a","d","o"," ","d","e"," ","l","a"," ","e","n","t","r","e","g","a">>), Rep(Cls(WhiteSpace), 0, Inf), Grp(1, Rep(NCls({"\n"}), 1, Inf))>>), 1),
     grp(text, Cat(<<Alt(<<Bol, Cls({"\n"})>>), Rep(Cls(WhiteSpace), 0, Inf), Grp(1, Alt(<<LitI(<<"E","n","t","r","e","g","a","d","o">>), LitI(<<"E","n"," ","c","a","m","i","n","o">>), LitI(<<"L","i","s","t","o"," ","p","a","r","a"," ","l","a"," ","e","n","t","r","e","g","a">>)>>)), Wb>>), 1),
     grp(text, Cat(<<Alt(<<Bol, Cls({"\n"})>>), Rep(Cls(WhiteSpace), 0, Inf), Grp(1, Alt(<<LitI(<<"D","e","l","i","v","e","r","e","d">>), LitI(<<"I","n"," ","t","r","a","n","s","i","t">>), LitI(<<"O","n"," ","v","e","h","i","c","l","e"," ","f","o","r"," ","d","e","l","i","v","e","r","y">>)>>)), Wb>>), 1) >>)),
   deliveredAt |-> cap(firstTruthy(<<
     grp(text, Cat(<<Alt(<<Bol, Cls({"\n"})>>), Rep(Cls(WhiteSpace), 0, Inf), LitI(<<"E","n","t","r","e","g","a","d","o">>), Rep(Cls(WhiteSpace), 0, Inf), Rep(Alt(<<LitI(<<"e","l">>), LitI(<<"o","n">>)>>), 0, 1), Rep(Cls(WhiteSpace), 0, Inf), Grp(1, Rep(NCls({"\n"}), 1, Inf))>>), 1),
     grp(text, Cat(<<LitI(<<"E","N","T","R","E","G","A","D","O">>), Lazy(NCls({}), 0, 120), LitI(<<"E","l">>), Rep(Cls(WhiteSpace), 1, Inf), Grp(1, Rep(NCls({"\n"}), 1, Inf))>>), 1),
     grp(text, Cat(<<LitI(<<"D","e","l","i","v","e","r","e","d">>), Lazy(NCls({}), 0, 120), Rep(LitI(<<"o","n">>), 0, 1), Rep(Cls(WhiteSpace), 1, Inf), Grp(1, Rep(NCls({"\n"}), 1, Inf))>>), 1) >>)),
   signedBy |-> cap(firstTruthy(<<
     grp(text, Cat(<<Alt(<<Bol, Cls({"\n"})>>), Rep(Cls(WhiteSpace), 0, Inf), LitI(<<"F","i","r","m","a","d","o"," ","p","o","r">>), Rep(Cls(WhiteSpace \cup {":"}), 1, Inf), Grp(1, Rep(ClsI(UpperAZ \cup {"A'","E'","I'","O'","U'","N~"," ",".","-"}), 3, Inf))>>), 1),
     grp(text, Cat(<<Alt(<<Bol, Cls({"\n"})>>), Rep(Cls(WhiteSpace), 0, Inf), LitI(<<"S","i","g","n","e","d"," ","b","y">>), Rep(Cls(WhiteSpace \cup {":"}), 1, Inf), Grp(1, Rep(ClsI(UpperAZ \cup LowerAZ \cup {" ",".","-"}), 3, Inf))>>), 1) >>)),
   eta |-> cap(firstTruthy(<<
     grp(text, Cat(<<LitI(<<"E","n","t","r","e","g","a"," ">>), Alt(<<LitI(<<"e","s","t","i","m","a","d","a">>), LitI(<<"p","r","e","v","i","s","t","a">>), LitI(<<"p","r","o","g","r","a","m","a","d","a">>)>>), Rep(Cls(WhiteSpace), 0, Inf), Rep(Cls({":","-"}), 0, 1), Rep(Cls(WhiteSpace), 0, Inf), Grp(1, Rep(NCls({"\n"}), 1, Inf))>>), 1),
     grp(text, Cat(<<LitI(<<"E","s","t","i","m","a","t","e","d"," ","d","e","l","i","v","e","r","y">>), Rep(Cls(WhiteSpace), 0, Inf), Rep(Cls({":","-"}), 0, 1), Rep(Cls(WhiteSpace), 0, Inf), Grp(1, Rep(NCls({"\n"}), 1, Inf))>>), 1), NULL >>)),
   origin |-> cap(firstTruthy(<<
     grp(text, Cat(<<Alt(<<Bol, Cls({"\n"})>>), Rep(Cls(WhiteSpace), 0, Inf), Lit(<<"D","E","S","D","E">>), Rep(Cls(WhiteSpace), 0, Inf), Grp(1, Rep(Cls(UpperAZ \cup {"A'","E'","I'","O'","U'","N~"," ",",",".","-"}), 1, Inf)), Wb>>), 1),
     grp(text, Cat(<<Alt(<<Bol, Cls({"\n"})>>), Rep(Cls(WhiteSpace), 0, Inf), Lit(<<"F","R","O","M">>), Rep(Cls(WhiteSpace), 0, Inf), Grp(1, Rep(Cls(UpperAZ \cup {" ",",",".","-"}), 1, Inf)), Wb>>), 1) >>)),
   destination |-> dropBoilerplate(fedexDestination(text))]

scrapeDHL_part001(text) ==
  [status |-> cap(firstTruthy(<<
     grp(text, Cat(<<Alt(<<Bol, Cls({"\n"})>>), Rep(Cls(WhiteSpace), 0, Inf), LitI(<<"E","s","t","a","d","o">>), Rep(Cls(WhiteSpace), 0, Inf), Rep(Cls({":","-"}), 0, 1), Rep(Cls(WhiteSpace), 0, Inf), Grp(1, Rep(NCls({"\n"}), 1, Inf))>>), 1),
     grp(text, Cat(<<Alt(<<Bol, Cls({"\n"})>>), Rep(Cls(WhiteSpace), 0, Inf), Grp(1, Alt(<<LitI(<<"E","n"," ","t","r","a'","n","s","i","t","o">>), LitI(<<"E","n","t","r","e","g","a","d","o">>), LitI(<<"L","i","s","t","o"," ","p","a","r","a"," ","l","a"," ","e","n","t","r","e","g","a">>)>>)), Wb>>), 1),
     grp(text, Cat(<<Alt(<<Bol, Cls({"\n"})>>), Rep(Cls(WhiteSpace), 0, Inf), Grp(1, Alt(<<LitI(<<"I","n"," ","t","r","a","n","s","i","t">>), LitI(<<"D","e","l","i","v","e","r","e","d">>), LitI(<<"O","u","t"," ","f","o","r"," ","d","e","l","i","v","e","r","y">>)>>)), Wb>>), 1) >>)),
   eta |-> cap(firstTruthy(<<
     grp(text, Cat(<<LitI(<<"F","e","c","h","a"," ","d","e"," ","e","n","t","r","e","g","a"," ">>), Alt(<<LitI(<<"e","s","t","i","m","a","d","a">>), LitI(<<"p","r","e","v","i","s","t","a">>)>>), Rep(Cls(WhiteSpace), 0, Inf), Rep(Cls({":","-"}), 0, 1), Rep(Cls(WhiteSpace), 0, Inf), Grp(1, Rep(NCls({"\n"}), 1, Inf))>>), 1),
     grp(text, Cat(<<LitI(<<"E","s","t","i","m","a","t","e","d"," ","d","e","l","i","v","e","r","y">>), Rep(Cls(WhiteSpace), 0, Inf), Rep(Cls({":","-"}), 0, 1), Rep(Cls(WhiteSpace), 0, Inf), Grp(1, Rep(NCls({"\n"}), 1, Inf))>>), 1), NULL >>)),
   deliveredAt |-> cap(firstTruthy(<<
     grp(text, Cat(<<Alt(<<Bol, Cls({"\n"})>>), Rep(Cls(WhiteSpace), 0, Inf), LitI(<<"E","n","t","r","e","g","a","d","o">>), Rep(Cls(WhiteSpace), 0, Inf), Alt(<<LitI(<<"e","l">>), LitI(<<"o","n">>)>>), Rep(Cls(WhiteSpace), 0, Inf), Grp(1, Rep(NCls({"\n"}), 1, Inf))>>), 1), NULL >>))]

scrapeUPS_part001(text) ==
  [status |-> cap(firstTruthy(<<
     grp(text, Cat(<<Alt(<<Bol, Cls({"\n"})>>), Rep(Cls(WhiteSpace), 0, Inf), LitI(<<"E","s","t","a","d","o">>), Rep(Cls(WhiteSpace), 0, Inf), Rep(Cls({":","-"}), 0, 1), Rep(Cls(WhiteSpace), 0, Inf), Grp(1, Rep(NCls({"\n"}), 1, Inf))>>), 1),
     grp(text, Cat(<<Alt(<<Bol, Cls({"\n"})>>), Rep(Cls(WhiteSpace), 0, Inf), Grp(1, Alt(<<LitI(<<"E","n","t","r","e","g","a","d","o">>), LitI(<<"E","n"," ","t","r","a'","n","s","i","t","o">>), LitI(<<"L","i","s","t","o"," ","p","a","r","a"," ","e","n","t","r","e","g","a">>)>>)), Wb>>), 1),
     grp(text, Cat(<<Alt(<<Bol, Cls({"\n"})>>), Rep(Cls(WhiteSpace), 0, Inf), Grp(1, Alt(<<LitI(<<"D","e","l","i","v","e","r","e","d">>), LitI(<<"I","n"," ","T","r","a","n","s","i","t">>), LitI(<<"O","u","t"," ","f","o","r"," ","D","e","l","i","v","e","r","y">>)>>)), Wb>>), 1) >>)),
   eta |-> cap(firstTruthy(<<
     grp(text, Cat(<<LitI(<<"E","n","t","r","e","g","a"," ">>), Alt(<<LitI(<<"e","s","t","i","m","a","d","a">>), LitI(<<"p","r","e","v","i","s","t","a">>)>>), Rep(Cls(WhiteSpace), 0, Inf), Rep(Cls({":","-"}), 0, 1), Rep(Cls(WhiteSpace), 0, Inf), Grp(1, Rep(NCls({"\n"}), 1, Inf))>>), 1),
     grp(text, Cat(<<LitI(<<"E","s","t","i","m","a","t","e","d"," ","D","e","l","i","v","e","r","y">>), Rep(Cls(WhiteSpace), 0, Inf), Rep(Cls({":","-"}), 0, 1), Rep(Cls(WhiteSpace), 0, Inf), Grp(1, Rep(NCls({"\n"}), 1, Inf))>>), 1), NULL >>)),
   deliveredAt |-> cap(firstTruthy(<<
     grp(text, Cat(<<Alt(<<Bol, Cls({"\n"})>>), Rep(Cls(WhiteSpace), 0, Inf), LitI(<<"E","n","t","r","e","g","a","d","o">>), Rep(Cls(WhiteSpace), 0, Inf), Alt(<<LitI(<<"e","l">>), LitI(<<"o","n">>)>>), Rep(Cls(WhiteSpace), 0, Inf), Grp(1, Rep(NCls({"\n"}), 1, Inf))>>), 1),
     grp(text, Cat(<<Alt(<<Bol, Cls({"\n"})>>), Rep(Cls(WhiteSpace), 0, Inf), LitI(<<"D","e","l","i","v","e","r","e","d">>), Rep(Cls(WhiteSpace), 0, Inf), LitI(<<"o","n">>), Rep(Cls(WhiteSpace), 0, Inf), Grp(1, Rep(NCls({"\n"}), 1, Inf))>>), 1), NULL >>)),
   signedBy |-> cap(firstTruthy(<<
     grp(text, Cat(<<Alt(<<Bol, Cls({"\n"})>>), Rep(Cls(WhiteSpace), 0, Inf), LitI(<<"F","i","r","m","a","d","o"," ","p","o","r">>), Rep(Cls(WhiteSpace \cup {":"}), 1, Inf), Grp(1, Rep(ClsI(UpperAZ \cup {"A'","E'","I'","O'","U'","N~"," ",".","-"}), 3, Inf))>>), 1),
     grp(text, Cat(<<Alt(<<Bol, Cls({"\n"})>>), Rep(Cls(WhiteSpace), 0, Inf), LitI(<<"S","i","g","n","e","d"," ","b","y">>), Rep(Cls(WhiteSpace \cup {":"}), 1, Inf), Grp(1, Rep(ClsI(UpperAZ \cup LowerAZ \cup {" ",".","-"}), 3, Inf))>>), 1), NULL >>)),
   destination |-> dropBoilerplate(cap(firstTruthy(<<
     grp(text, Cat(<<Alt(<<Bol, Cls({"\n"})>>), Rep(Cls(WhiteSpace), 0, Inf), Lit(<<"E","N","T","R","E","G","A","D","O">>), Rep(Cls(WhiteSpace), 0, Inf), Grp(1, Rep(Cls(UpperAZ \cup {"A'","E'","I'","O'","U'","N~"," ",",",".","-"}), 1, Inf)), Wb>>), 1),
     grp(text, Cat(<<Alt(<<Bol, Cls({"\n"})>>), Rep(Cls(WhiteSpace), 0, Inf), Lit(<<"D","E","L","I","V","E","R","E","D">>), Rep(Cls(WhiteSpace), 0, Inf), Grp(1, Rep(Cls(UpperAZ \cup {" ",",",".","-"}), 1, Inf)), Wb>>), 1) >>)))]

scrapeDeltaCargo_part001(text) ==
  [status |-> cap(firstTruthy(<<
     grp(text, Cat(<<Alt(<<Bol, Cls({"\n"})>>), Rep(Cls(WhiteSpace), 0, Inf), LitI(<<"E","s","t","a","d","o">>), Rep(Cls(WhiteSpace), 0, Inf), Rep(Cls({":","-"}), 0, 1), Rep(Cls(WhiteSpace), 0, Inf), Grp(1, Rep(NCls({"\n"}), 1, Inf))>>), 1),
     grp(text, Cat(<<Alt(<<Bol, Cls({"\n"})>>), Rep(Cls(WhiteSpace), 0, Inf), Grp(1, Alt(<<LitI(<<"E","n"," ","t","r","a'","n","s","i","t","o">>), LitI(<<"E","n","t","r","e","g","a","d","o">>), LitI(<<"L","i","s","t","o">>), LitI(<<"E","n"," ","b","o","d","e","g","a">>)>>)), Wb>>), 1),
     grp(text, Cat(<<Alt(<<Bol, Cls({"\n"})>>), Rep(Cls(WhiteSpace), 0, Inf), Grp(1, Alt(<<LitI(<<"I","n"," ","T","r","a","n","s","i","t">>), LitI(<<"D","e","l","i","v","e","r","e","d">>), LitI(<<"R","e","a","d","y">>), LitI(<<"A","t"," ","w","a","r","e","h","o","u","s","e">>)>>)), Wb>>), 1) >>)),
   eta |-> cap(firstTruthy(<<
     grp(text, Cat(<<Alt(<<Bol, Cls({"\n"})>>), Rep(Cls(WhiteSpace), 0, Inf), LitI(<<"F","e","c","h","a"," ">>), Alt(<<LitI(<<"e","s","t","i","m","a","d","a">>), LitI(<<"p","r","e","v","i","s","t","a">>)>>), Rep(Cls(WhiteSpace), 0, Inf), Rep(Cls({":","-"}), 0, 1), Rep(Cls(WhiteSpace), 0, Inf), Grp(1, Rep(NCls({"\n"}), 1, Inf))>>), 1),
     grp(text, Cat(<<Alt(<<Bol, Cls({"\n"})>>), Rep(Cls(WhiteSpace), 0, Inf), LitI(<<"E","s","t","i","m","a","t","e","d"," ">>), Alt(<<LitI(<<"d","a","t","e">>), LitI(<<"t","i","m","e">>)>>), Rep(Cls(WhiteSpace), 0, Inf), Rep(Cls({":","-"}), 0, 1), Rep(Cls(WhiteSpace), 0, Inf), Grp(1, Rep(NCls({"\n"}), 1, Inf))>>), 1), NULL >>)),
   lastScan |-> cap(firstTruthy(<<
     grp(text, Cat(<<Alt(<<Bol, Cls({"\n"})>>), Rep(Cls(WhiteSpace), 0, Inf), Grp(1, Alt(<<LitI(<<"U'","l","t","i","m","a"," ","a","c","t","u","a","l","i","z","a","c","i","o'","n">>), LitI(<<"L","a","s","t"," ","u","p","d","a","t","e">>)>>)), Rep(Cls(WhiteSpace), 0, Inf), Rep(Cls({":","-"}), 0, 1), Rep(Cls(WhiteSpace), 0, Inf), Grp(2, Rep(NCls({"\n"}), 1, Inf))>>), 2), NULL >>))]

scrapeExpeditors_part001(text) ==
  [status |-> cap(firstTruthy(<<
     grp(text, Cat(<<Alt(<<Bol, Cls({"\n"})>>), Rep(Cls(WhiteSpace), 0, Inf), LitI(<<"S","t","a","t","u","s">>), Rep(Cls(WhiteSpace), 0, Inf), Rep(Cls({":","-"}), 0, 1), Rep(Cls(WhiteSpace), 0, Inf), Grp(1, Rep(NCls({"\n"}), 1, Inf))>>), 1),
     grp(text, Cat(<<Alt(<<Bol, Cls({"\n"})>>), Rep(Cls(WhiteSpace), 0, Inf), Grp(1, Alt(<<LitI(<<"D","e","l","i","v","e","r","e","d">>), LitI(<<"I","n"," ","T","r","a","n","s","i","t">>), LitI(<<"A","v","a","i","l","a","b","l","e">>), LitI(<<"R","e","a","d","y">>)>>))>>), 1),
     grp(text, Cat(<<Alt(<<Bol, Cls({"\n"})>>), Rep(Cls(WhiteSpace), 0, Inf), Grp(1, Alt(<<LitI(<<"E","n","t","r","e","g","a","d","o">>), LitI(<<"E","n"," ","t","r","a'","n","s","i","t","o">>), LitI(<<"D","i","s","p","o","n","i","b","l","e">>), LitI(<<"L","i","s","t","o">>)>>))>>), 1), NULL >>))]

\* ----------------------------------------------------------------------
\* State
\* ----------------------------------------------------------------------

VARIABLES
  useScrape,  \* const USE_SCRAPE = process.env.USE_SCRAPE === "1"
  now,        \* Date.now(), in milliseconds
  cache,      \* app.js (GET /track/:carrier): const cache = new Map()
  puts,       \* history: per key, the value and time of its latest setInCache
  last,       \* history: the latest request handled and the answer it got
  pending,    \* GET /track/:carrier: the requests waiting for their scraper
  answers,    \* history: the answer each of those requests got
  input,      \* a page text handed to the text functions
  output      \* what the text function applied last returned for it

\* the requests of GET /track/:carrier that overlap in time
flightVars == <<pending, answers>>

\* the text functions on their own
textVars == <<input, output>>

vars == <<useScrape, now, cache, puts, last, pending, answers, input, output>>

\* app.js (GET /track/:carrier): the lifetime of a cache entry, in ms
CACHE_TTL_MS == 10 * 60 * 1000

\* ---- bounds of the model ----
TickMs == CACHE_TTL_MS \div 2
MaxTicks == 2
MaxNow == MaxTicks * TickMs

\* ---- inputs ----
TRUE_V == <<"true">>
FALSE_V == <<"false">>

\* carrier strings sent to the /api/track servers
ApiCarriers == {
  <<"d","h","l">>, <<"D","H","L">>, <<"f","e","d","e","x">>, <<"F","e","d","E","x">>, <<"u","p","s">>, <<"d","e","l","t","a">>,
  <<"D","e","l","t","a","-","C","a","r","g","o">>, <<"d","e","l","t","a","c","a","r","g","o">>,
  <<"e","x","p","e","d","i","t","o","r","s">>, <<"z","z","z","-","u","n","k","n","o","w","n">>, <<"c","o","n","s","t","r","u","c","t","o","r">>, << >> }

\* tracking codes
ApiCodes == { <<"1","2"," ","3","4">>, << >> }

\* (carrier, number) pairs sent to GET /track/:carrier; a route parameter is
\* never empty
TrackRequests ==
  ({<<"d","h","l">>} \X {<<"a","b","c">>, <<"A","B","C">>, <<" ","a","b","c"," ">>, << >>})
  \cup ({<<"D","H","L">>, <<"z","z","z","-","u","n","k","n","o","w","n">>, <<"c","o","n","s","t","r","u","c","t","o","r">>, <<"_","_","p","r","o","t","o","_","_">>} \X {<<"a","b","c">>})
  \cup {<<<<"z","z","z","-","u","n","k","n","o","w","n">>, << >> >>}

\* what a tracking page shows: the text of its body and its title
PageDelivered == [bodyText |-> <<"E","s","t","a","d","o"," ","d","e"," ","l","a"," ","e","n","t","r","e","g","a"," ","E","n","t","r","e","g","a","d","o","\n","E","n","t","r","e","g","a","d","o"," ","e","l"," ","2","7","/","0","8","/","2","0","2","5","\n">>,
                  title |-> <<"Seguimiento">>]
PageTransit == [bodyText |-> <<"S","t","a","t","u","s",":"," ","I","n"," ","T","r","a","n","s","i","t","\n","E","s","t","i","m","a","t","e","d"," ","d","e","l","i","v","e","r","y",":"," ","A","u","g","u","s","t"," ","2","7",","," ","2","0","2","5","\n">>,
                title |-> <<"Tracking">>]
PageEmpty == [bodyText |-> <<"I","n","g","r","e","s","e"," ","s","u"," ","n","u","m","e","r","o"," ","d","e"," ","g","u","i","a","\n">>, title |-> <<"Tracking">>]
Pages == {PageDelivered, PageTransit, PageEmpty}

\* the steps of a scrape at which the browser can fail
FailStages == {"launch", "newContext", "goto", "close"}
FailMessages == { <<"page.goto: Timeout 30000ms exceeded">>, << >> }

\* what the browser does during one scrape
Outcomes ==
  [kind : {"ok"}, page : Pages]
  \cup [kind : {"fail"}, stage : FailStages, msg : FailMessages]

\* the /api/track servers never look at the message of a failure
ApiOutcomes == {o \in Outcomes : o.kind = "fail" => o.msg = << >>}

\* GET /track/:carrier treats a failure alike at whatever step it happens
TrackOutcomes ==
  {o \in Outcomes : /\ o.kind = "fail" => o.stage = "goto"
                    /\ o.kind = "ok" => o.page # PageTransit}

NoRequest == [variant |-> "none"]

NoOutput == [op |-> "none"]

\* the servers after start-up
InitServers ==
  /\ useScrape \in BOOLEAN
  /\ now = 0
  /\ cache = << >>
  /\ puts = << >>
  /\ last = NoRequest
  /\ pending = << >>
  /\ answers = << >>

Init ==
  /\ InitServers
  /\ input = << >>
  /\ output = NoOutput

\* ----------------------------------------------------------------------
\* What each scraper reads from each page (the extraction functions above,
\* applied once per page)
\* ----------------------------------------------------------------------

ScraperNames == {"fedex", "dhl", "ups", "delta", "expeditors"}

\* unnamed/part_000: extractStatusAndEta(bodyText)
scraped_part000 == [p \in Pages |-> extractStatusAndEta(p.bodyText)]

\* app.js (GET /track/:carrier): bodyText = (await page.textContent('body')) || ''
scraped_track == [p \in Pages |-> scrapeResult_track(orElse(p.bodyText, << >>))]

\* app.js (POST /api/track): scrapeFedEx
scraped_app == [p \in Pages |-> scrapeFedEx_app(orElse(p.bodyText, << >>))]

\* server.js: const text = await readBodyText(page)
scraped_server ==
  [n \in ScraperNames |-> [p \in Pages |->
     LET text == readBodyText_server(p.bodyText)
     IN CASE n = "fedex" -> scrapeFedEx_server(text)
          [] n = "dhl" -> scrapeDHL_server(text)
          [] n = "ups" -> scrapeUPS_server(text)
          [] n = "delta" -> scrapeDeltaCargo_server(text)
          [] OTHER -> scrapeExpeditors_server(text)]]

\* unnamed/part_001: const text = sanitize(await readBodyText(page))
scraped_part001 ==
  [n \in ScraperNames |-> [p \in Pages |->
     LET text == sanitize(p.bodyText)
     IN CASE n = "fedex" -> scrapeFedEx_part001(text)
          [] n = "dhl" -> scrapeDHL_part001(text)
          [] n = "ups" -> scrapeUPS_part001(text)
          [] n = "delta" -> scrapeDeltaCargo_part001(text)
          [] OTHER -> scrapeExpeditors_part001(text)]]

\* scrapeByCarrier: the first of the names that the lowercased carrier
\* contains, "none" when it contains none
scraperFor(carrier) ==
  LET c == toLowerCase(orElse(carrier, << >>))
  IN CASE includes(c, <<"f","e","d","e","x">>) -> "fedex"
       [] includes(c, <<"d","h","l">>) -> "dhl"
       [] includes(c, <<"u","p","s">>) -> "ups"
       [] includes(c, <<"d","e","l","t","a">>) -> "delta"
       [] includes(c, <<"e","x","p","e","d","i","t","o","r","s">>) -> "expeditors"
       [] OTHER -> "none"

\* ----------------------------------------------------------------------
\* The headless browser around one scrape.  Each operator gives what the
\* wrapper does for one behaviour o of the browser:
\*   threw            the wrapper rejects
\*   launchAttempted  chromium.launch() was called
\*   fetchAttempted   page.goto() was called
\*   browser          "none" (not launched), "closed", or "leaked"
\*   page             the page read, NoPage when none was
\* ----------------------------------------------------------------------

NoPage == [bodyText |-> << >>, title |-> <<"none">>]

NoBrowser == [threw |-> FALSE, msg |-> << >>, launchAttempted |-> FALSE,
              fetchAttempted |-> FALSE, browser |-> "none", page |-> NoPage]

\* unnamed/part_001, server.js: withPage; unnamed/part_000: scrapePublicPage.
\* launch, newContext and newPage run before the try; the finally closes the
\* context and then the browser.
withPage(o) ==
  IF o.kind = "ok"
  THEN [threw |-> FALSE, msg |-> << >>, launchAttempted |-> TRUE,
        fetchAttempted |-> TRUE, browser |-> "closed", page |-> o.page]
  ELSE [threw |-> TRUE, msg |-> o.msg, launchAttempted |-> TRUE,
        fetchAttempted |-> o.stage \in {"goto", "evaluate", "close"},
        browser |-> CASE o.stage = "launch" -> "none"
                      [] o.stage \in {"newContext", "close"} -> "leaked"
                      [] OTHER -> "closed",
        page |-> NoPage]

\* app.js (POST /api/track): withPage throws SCRAPE_DISABLED before it
\* imports playwright when USE_SCRAPE is off.
withPage_app(o, scrapeOn) ==
  IF ~scrapeOn
  THEN [threw |-> TRUE, msg |-> <<"SCRAPE_DISABLED">>, launchAttempted |-> FALSE,
        fetchAttempted |-> FALSE, browser |-> "none", page |-> NoPage]
  ELSE withPage(o)

\* app.js (GET /track/:carrier): withBrowser closes the browser after the
\* callback, and in the catch before rethrowing.
withBrowser(o) ==
  IF o.kind = "ok"
  THEN [threw |-> FALSE, msg |-> << >>, launchAttempted |-> TRUE,
        fetchAttempted |-> TRUE, browser |-> "closed", page |-> o.page]
  ELSE [threw |-> TRUE, msg |-> o.msg, launchAttempted |-> TRUE,
        fetchAttempted |-> o.stage \in {"goto", "evaluate", "close"},
        browser |-> CASE o.stage = "launch" -> "none"
                      [] o.stage \in {"newContext", "close"} -> "leaked"
                      [] OTHER -> "closed",
        page |-> NoPage]

\* ----------------------------------------------------------------------
\* Responses
\* ----------------------------------------------------------------------

EmptyObject == [k \in {} |-> NULL]

\* res.json(obj): JSON.stringify leaves out the keys whose value is undefined.
Json(obj) == [k \in {x \in DOMAIN obj : obj[x] # UNDEFINED} |-> obj[k]]

NoOp == [op |-> "none"]

Reply(variant, carrier, code, http, body, run, get, put, at) ==
  [variant |-> variant, carrier |-> carrier, code |-> code, http |-> http,
   body |-> Json(body), launchAttempted |-> run.launchAttempted,
   fetchAttempted |-> run.fetchAttempted, browser |-> run.browser,
   scrapeFailed |-> run.threw, page |-> run.page,
   get |-> get, put |-> put, at |-> at]

MissingParams == [ok |-> FALSE_V, error |-> <<"F","a","l","t","a","n"," ","p","a","r","a'","m","e","t","r","o","s",":"," ","c","a","r","r","i","e","r"," ","y"," ","c","o","d","e">>]
NotSupported(carrier) == [ok |-> FALSE_V, error |-> <<"Carrier no soportado">>, carrier |-> carrier]

\* ----------------------------------------------------------------------
\* app.js: POST /api/track
\* ----------------------------------------------------------------------

\* scrapeByCarrier: only FedEx has a scraper here
scrapeByCarrier_app(carrier, o, scrapeOn) ==
  IF scraperFor(carrier) = "fedex"
  THEN LET run == withPage_app(o, scrapeOn)
       IN [run |-> run, value |-> IF run.threw THEN EmptyObject ELSE scraped_app[o.page]]
  ELSE [run |-> NoBrowser, value |-> EmptyObject]

TrackApp(carrier, code, o) ==
  /\ last' =
       IF ~truthy(carrier) \/ ~truthy(code)
       THEN Reply("app", carrier, code, 400, MissingParams, NoBrowser, NoOp, NoOp, now)
       ELSE LET url == officialLink_app(carrier, code)
            IN IF ~truthy(url)
               THEN Reply("app", carrier, code, 400, NotSupported(carrier), NoBrowser, NoOp, NoOp, now)
               ELSE LET s == scrapeByCarrier_app(carrier, o, useScrape)
                        details == IF s.run.threw THEN EmptyObject ELSE s.value
                    IN Reply("app", carrier, code, 200,
                             details @@ [ok |-> TRUE_V, carrier |-> carrier, code |-> code,
                                         officialUrl |-> url],
                             s.run, NoOp, NoOp, now)
  /\ UNCHANGED <<useScrape, now, cache, puts, textVars, flightVars>>

\* ----------------------------------------------------------------------
\* unnamed/part_000: POST /api/track (no USE_SCRAPE switch: always scrapes)
\* ----------------------------------------------------------------------

TrackPart000(carrier, code, o) ==
  /\ last' =
       IF ~truthy(carrier) \/ ~truthy(code)
       THEN Reply("part_000", carrier, code, 400, MissingParams, NoBrowser, NoOp, NoOp, now)
       ELSE LET url == officialLink_part000(carrier, code)
            IN IF ~truthy(url)
               THEN Reply("part_000", carrier, code, 400, NotSupported(carrier), NoBrowser, NoOp, NoOp, now)
               ELSE LET run == withPage(o)
                        parsed == IF run.threw THEN [status |-> NULL, etaText |-> NULL]
                                  ELSE scraped_part000[o.page]
                    IN Reply("part_000", carrier, code, 200,
                             [ok |-> TRUE_V, carrier |-> carrier, code |-> code,
                              officialUrl |-> url,
                              status |-> orElse(parsed.status, NULL),
                              eta |-> orElse(parsed.etaText, NULL),
                              title |-> IF run.threw THEN NULL ELSE o.page.title],
                             run, NoOp, NoOp, now)
  /\ UNCHANGED <<useScrape, now, cache, puts, textVars, flightVars>>

\* ----------------------------------------------------------------------
\* unnamed/part_001: GET /api/track
\* ----------------------------------------------------------------------

scrapeByCarrier_part001(carrier, o) ==
  LET n == scraperFor(carrier)
      run == withPage(o)
  IN IF n # "none"
     THEN [run |-> run, value |-> IF run.threw THEN EmptyObject ELSE scraped_part001[n][o.page]]
     ELSE [run |-> NoBrowser, value |-> EmptyObject]

TrackPart001(carrier, code, o) ==
  /\ last' =
       IF ~truthy(carrier) \/ ~truthy(code)
       THEN Reply("part_001", carrier, code, 400, MissingParams, NoBrowser, NoOp, NoOp, now)
       ELSE LET url == officialLink_part001(carrier, code)
            IN IF ~truthy(url)
               THEN Reply("part_001", carrier, code, 400, NotSupported(carrier), NoBrowser, NoOp, NoOp, now)
               ELSE LET s == IF useScrape THEN scrapeByCarrier_part001(carrier, o)
                             ELSE [run |-> NoBrowser, value |-> EmptyObject]
                        details == IF s.run.threw THEN EmptyObject ELSE s.value
                    IN Reply("part_001", carrier, code, 200,
                             details @@ [ok |-> TRUE_V, carrier |-> carrier, code |-> code,
                                         officialUrl |-> url],
                             s.run, NoOp, NoOp, now)
  /\ UNCHANGED <<useScrape, now, cache, puts, textVars, flightVars>>

\* ----------------------------------------------------------------------
\* server.js: GET /api/track
\* ----------------------------------------------------------------------

scrapeByCarrier_server(carrier, o) ==
  LET n == scraperFor(carrier)
      run == withPage(o)
  IN IF n # "none"
     THEN [run |-> run, value |-> IF run.threw THEN EmptyObject ELSE scraped_server[n][o.page]]
     ELSE [run |-> NoBrowser, value |-> EmptyObject]

TrackServer(carrier, code, o) ==
  /\ last' =
       IF ~truthy(carrier) \/ ~truthy(code)
       THEN Reply("server", carrier, code, 400, MissingParams, NoBrowser, NoOp, NoOp, now)
       ELSE LET url == officialLink_server(carrier, code)
            IN IF ~truthy(url)
               THEN Reply("server", carrier, code, 400, NotSupported(carrier), NoBrowser, NoOp, NoOp, now)
               ELSE LET s == IF useScrape THEN scrapeByCarrier_server(carrier, o)
                             ELSE [run |-> NoBrowser, value |-> EmptyObject]
                        details == IF s.run.threw THEN EmptyObject ELSE s.value
                    IN Reply("server", carrier, code, 200,
                             details @@ [ok |-> TRUE_V, carrier |-> carrier, code |-> code,
                                         officialUrl |-> url],
                             s.run, NoOp, NoOp, now)
  /\ UNCHANGED <<useScrape, now, cache, puts, textVars, flightVars>>

\* ----------------------------------------------------------------------
\* app.js: the cache and GET /track/:carrier
\* ----------------------------------------------------------------------

NullValue == [type |-> "null"]

\* JavaScript truthiness of what getFromCache returns
truthyValue(v) ==
  CASE v.type = "null" -> FALSE
    [] v.type = "boolean" -> v.val
    [] OTHER -> TRUE

Without(c, key) == [k \in DOMAIN c \ {key} |-> c[k]]

\* getFromCache with the freshness test lost: every read is a miss
getFromCache_alwaysMiss(c, key, t) ==
  [value |-> NullValue, cache |-> c]

\* getFromCache with cache.delete(key) lost: an expired entry stays
getFromCache_keepExpired(c, key, t) ==
  IF key \notin DOMAIN c
  THEN [value |-> NullValue, cache |-> c]
  ELSE IF t < c[key].expires
       THEN [value |-> c[key].value, cache |-> c]
       ELSE [value |-> NullValue, cache |-> c]

\* setInCache that builds the map anew with the one entry
setInCache_dropsOthers(c, key, value, t) ==
  [k \in {key} |-> [value |-> value, expires |-> t + CACHE_TTL_MS]]

\* setInCache that stores nothing
setInCache_skip(c, key, value, t) == c

\* setInCache with the TTL lost: the entry expires the moment it is stored
setInCache_noTtl(c, key, value, t) ==
  [k \in DOMAIN c \cup {key} |->
     IF k = key THEN [value |-> value, expires |-> t] ELSE c[k]]

\* getFromCache at time t: the value returned and the map afterwards
getFromCache(c, key, t) ==
  IF key \notin DOMAIN c
  THEN [value |-> NullValue, cache |-> c]
  ELSE IF t < c[key].expires
       THEN [value |-> c[key].value, cache |-> c]
       ELSE [value |-> NullValue, cache |-> Without(c, key)]

\* setInCache at time t
setInCache(c, key, value, t) ==
  [k \in DOMAIN c \cup {key} |->
     IF k = key THEN [value |-> value, expires |-> t + CACHE_TTL_MS] ELSE c[k]]

\* scrapers[carrier](trackingNumber): the five scrapers read the page body
\* inside withBrowser; Object(x) wraps the string; hasOwnProperty(x) answers
\* whether x is a registered carrier; calling the prototype object throws.
callScraper(fn, carrier, trackingNumber, o) ==
  CASE fn.type = "scraper" ->
         LET run == withBrowser(o)
         IN [run |-> run,
             value |-> IF run.threw THEN NullValue
                       ELSE [type |-> "object",
                             fields |-> scraped_track[o.page]]]
    [] fn.type = "function" /\ fn.name = "Object" ->
         [run |-> NoBrowser, value |-> [type |-> "String", str |-> trackingNumber]]
    [] fn.type = "function" /\ fn.name = "hasOwnProperty" ->
         [run |-> NoBrowser,
          value |-> [type |-> "boolean", val |-> trackingNumber \in scrapersOwn]]
    [] OTHER ->
         [run |-> [NoBrowser EXCEPT !.threw = TRUE,
                                    !.msg = <<"s","c","r","a","p","e","r","s","[","c","a","r","r","i","e","r","]"," ","i","s"," ","n","o","t"," ","a"," ","f","u","n","c","t","i","o","n">>],
          value |-> NullValue]

\* the property names of a string's characters
IndexKeys == <<"0", "1", "2", "3", "4", "5", "6", "7", "8", "9">>

\* { ...value }: the own enumerable properties of the value
spread(v) ==
  CASE v.type = "object" -> v.fields
    [] v.type = "String" -> [k \in {IndexKeys[i] : i \in 1..Len(v.str)} |->
                              <<v.str[CHOOSE i \in 1..Len(v.str) : IndexKeys[i] = k]>>]
    [] OTHER -> EmptyObject

\* The handler.  o is the browser's behaviour and d the time the scrape
\* takes; setInCache reads the clock after the scrape has finished.
TrackCarrier(carrier, number, o, d) ==
  LET trackingNumber == trim(orElse(number, << >>))
      fn == scrapersGet(carrier)
      cacheKey == carrier \o <<":">> \o trackingNumber
      g == getFromCache(cache, cacheKey, now)
      prior == IF cacheKey \in DOMAIN puts THEN puts[cacheKey] ELSE [op |-> "none"]
      get == [op |-> "get", key |-> cacheKey, value |-> g.value, prior |-> prior,
              had |-> cacheKey \in DOMAIN cache,
              removed |-> cacheKey \in DOMAIN cache /\ cacheKey \notin DOMAIN g.cache]
      s == callScraper(fn, carrier, trackingNumber, o)
      put == [op |-> "put", key |-> cacheKey, value |-> s.value, at |-> now + d]
      base == [carrier |-> carrier, trackingNumber |-> trackingNumber]
  IN IF fn.type = "undefined"
     THEN /\ last' = Reply("track", carrier, number, 404,
                           [error |-> <<"U","n","s","u","p","p","o","r","t","e","d"," ","c","a","r","r","i","e","r"," ","'">> \o carrier \o <<"'">>],
                           NoBrowser, NoOp, NoOp, now)
          /\ d = 0
          /\ UNCHANGED <<useScrape, now, cache, puts, textVars, flightVars>>
     ELSE IF ~truthy(trackingNumber)
     THEN /\ last' = Reply("track", carrier, number, 400,
                           [error |-> <<"M","i","s","s","i","n","g"," ","\"","n","u","m","b","e","r","\""," ","q","u","e","r","y"," ","p","a","r","a","m","e","t","e","r">>],
                           NoBrowser, NoOp, NoOp, now)
          /\ d = 0
          /\ UNCHANGED <<useScrape, now, cache, puts, textVars, flightVars>>
     ELSE IF truthyValue(g.value)
     THEN /\ last' = Reply("track", carrier, number, 200,
                           [cached |-> TRUE_V] @@ spread(g.value) @@ base,
                           NoBrowser, get, NoOp, now)
          /\ d = 0
          /\ cache' = g.cache
          /\ UNCHANGED <<useScrape, now, puts, textVars, flightVars>>
     ELSE IF ~s.run.threw
     THEN /\ d = 0 \/ fn.type = "scraper"
          /\ now + d <= MaxNow
          /\ now' = now + d
          /\ cache' = setInCache(g.cache, cacheKey, s.value, now + d)
          /\ puts' = [k \in DOMAIN puts \cup {cacheKey} |->
                        IF k = cacheKey THEN put ELSE puts[k]]
          /\ last' = Reply("track", carrier, number, 200,
                           [cached |-> FALSE_V] @@ spread(s.value) @@ base,
                           s.run, get, put, now)
          /\ UNCHANGED <<useScrape, textVars, flightVars>>
     ELSE /\ d = 0 \/ fn.type = "scraper"
          /\ now + d <= MaxNow
          /\ now' = now + d
          /\ cache' = g.cache
          /\ last' = Reply("track", carrier, number, 500,
                           [error |-> orElse(s.run.msg, <<"T","r","a","c","k","i","n","g"," ","f","a","i","l","e","d">>)],
                           s.run, get, NoOp, now)
          /\ UNCHANGED <<useScrape, puts, textVars, flightVars>>

\* Time passes between requests
Tick ==
  /\ now + TickMs <= MaxNow
  /\ now' = now + TickMs
  /\ UNCHANGED <<useScrape, cache, puts, last, textVars, flightVars>>


\* ----------------------------------------------------------------------
\* app.js: GET /track/:carrier with requests that overlap.  The handler
\* runs without interruption up to "await scrapers[carrier](...)" and, once
\* the scraper has settled, from there to its answer; other requests and
\* the clock move in between.
\* ----------------------------------------------------------------------

\* the most requests one behaviour sends
MaxRequests == 2

\* (carrier, number) pairs of the overlapping requests
FlightRequests ==
  {<<<<"d","h","l">>, <<"a","b","c">>>>, <<<<"f","e","d","e","x">>, <<"a","b","c">>>>, <<<<"z","z","z","-","u","n","k","n","o","w","n">>, <<"a","b","c">>>>}

\* what the browser does for them
FlightOutcomes ==
  {o \in TrackOutcomes : o.kind = "fail" => o.msg = << >>}

\* the answer to request id, with the cache key it used and the requests
\* that had been answered when it arrived
Answer(id, key, before, reply) ==
  (id :> (reply @@ [key |-> key, before |-> before]))

\* lines 383-397: the request arrives; it is answered at once (404, 400 or
\* from the cache) or calls its scraper and waits.
TrackBegin(carrier, number) ==
  LET id == Cardinality(DOMAIN pending \cup DOMAIN answers) + 1
      trackingNumber == trim(orElse(number, << >>))
      fn == scrapersGet(carrier)
      cacheKey == carrier \o <<":">> \o trackingNumber
      g == getFromCache(cache, cacheKey, now)
      prior == IF cacheKey \in DOMAIN puts THEN puts[cacheKey] ELSE [op |-> "none"]
      get == [op |-> "get", key |-> cacheKey, value |-> g.value, prior |-> prior,
              had |-> cacheKey \in DOMAIN cache,
              removed |-> cacheKey \in DOMAIN cache /\ cacheKey \notin DOMAIN g.cache]
      base == [carrier |-> carrier, trackingNumber |-> trackingNumber]
  IN /\ id <= MaxRequests
     /\ IF fn.type = "undefined"
        THEN /\ answers' = answers @@ Answer(id, cacheKey, DOMAIN answers,
                    Reply("track", carrier, number, 404,
                          [error |-> <<"U","n","s","u","p","p","o","r","t","e","d"," ","c","a","r","r","i","e","r"," ","'">> \o carrier \o <<"'">>],
                          NoBrowser, NoOp, NoOp, now))
             /\ UNCHANGED <<cache, pending>>
        ELSE IF ~truthy(trackingNumber)
        THEN /\ answers' = answers @@ Answer(id, cacheKey, DOMAIN answers,
                    Reply("track", carrier, number, 400,
                          [error |-> <<"M","i","s","s","i","n","g"," ","\"","n","u","m","b","e","r","\""," ","q","u","e","r","y"," ","p","a","r","a","m","e","t","e","r">>],
                          NoBrowser, NoOp, NoOp, now))
             /\ UNCHANGED <<cache, pending>>
        ELSE IF truthyValue(g.value)
        THEN /\ answers' = answers @@ Answer(id, cacheKey, DOMAIN answers,
                    Reply("track", carrier, number, 200,
                          [cached |-> TRUE_V] @@ spread(g.value) @@ base,
                          NoBrowser, get, NoOp, now))
             /\ cache' = g.cache
             /\ UNCHANGED pending
        ELSE /\ pending' = pending @@
                  (id :> [carrier |-> carrier, number |-> number,
                          trackingNumber |-> trackingNumber, key |-> cacheKey,
                          fn |-> fn, get |-> get, before |-> DOMAIN answers])
             /\ cache' = g.cache
             /\ UNCHANGED answers
     /\ UNCHANGED <<useScrape, now, puts, last, textVars>>

\* lines 397-402: the scraper of request id settles with outcome o; its
\* result is stored and sent, or its failure answered with 500.
TrackEnd(id, o) ==
  /\ id \in DOMAIN pending
  /\ LET p == pending[id]
         s == callScraper(p.fn, p.carrier, p.trackingNumber, o)
         put == [op |-> "put", key |-> p.key, value |-> s.value, at |-> now]
         base == [carrier |-> p.carrier, trackingNumber |-> p.trackingNumber]
     IN IF ~s.run.threw
        THEN /\ cache' = setInCache(cache, p.key, s.value, now)
             /\ puts' = [k \in DOMAIN puts \cup {p.key} |->
                           IF k = p.key THEN put ELSE puts[k]]
             /\ answers' = answers @@ Answer(id, p.key, p.before,
                    Reply("track", p.carrier, p.number, 200,
                          [cached |-> FALSE_V] @@ spread(s.value) @@ base,
                          s.run, p.get, put, now))
        ELSE /\ answers' = answers @@ Answer(id, p.key, p.before,
                    Reply("track", p.carrier, p.number, 500,
                          [error |-> orElse(s.run.msg, <<"T","r","a","c","k","i","n","g"," ","f","a","i","l","e","d">>)],
                          s.run, p.get, NoOp, now))
             /\ UNCHANGED <<cache, puts>>
  /\ pending' = Without(pending, id)
  /\ UNCHANGED <<useScrape, now, last, textVars>>

\* ----------------------------------------------------------------------
\* The text functions of unnamed/part_000 and unnamed/part_001 on their
\* own: each action applies one of them to the page text in input, once.
\* ----------------------------------------------------------------------

\* lines a tracking page can show
TextLines == <<
  <<"E","N","T","R","E","G","A","D","O"," ","M","O","N","T","E","R","R","E","Y","\n">>,
  <<"E","N"," ","C","A","M","I","N","O"," ","P","U","E","B","L","A","\n">>,
  <<"T","O"," ","M","A","I","N"," ","C","O","N","T","E","N","T","\n">>,
  <<"E","n","t","r","e","g","a"," ","e","s","t","i","m","a","d","a",":"," ","2","7","/","0","8","/","2","0","2","5","\n">>,
  <<"E","s","t","i","m","a","t","e","d"," ","d","e","l","i","v","e","r","y",":"," ","A","u","g","u","s","t"," ","2","7",","," ","2","0","2","5","\n">>,
  <<"F","e","d","E","x"," ","s","k","i","p"," ","t","o"," ","m","a","i","n"," ","c","o","n","t","e","n","t"," ","R","a","s","t","r","e","o","\n">> >>

\* the most lines of a page text
MaxLines == 2

\* the page texts: up to MaxLines of the lines, in any order
TextInputs ==
  {Flat([k \in DOMAIN s |-> TextLines[s[k]]]) :
     s \in UNION {[1..n -> 1..Len(TextLines)] : n \in 0..MaxLines}}

\* unnamed/part_001: sanitize(text)
Sanitize ==
  /\ output = NoOutput
  /\ output' = [op |-> "sanitize", value |-> sanitize(input)]
  /\ UNCHANGED <<useScrape, now, cache, puts, last, flightVars, input>>

\* unnamed/part_000: extractStatusAndEta(bodyText)
ExtractStatusAndEta ==
  /\ output = NoOutput
  /\ output' = [op |-> "extractStatusAndEta", value |-> extractStatusAndEta(input)]
  /\ UNCHANGED <<useScrape, now, cache, puts, last, flightVars, input>>

\* unnamed/part_001: the callback of scrapeFedEx on the text of the page
ScrapeFedEx ==
  /\ output = NoOutput
  /\ output' = [op |-> "scrapeFedEx", value |-> scrapeFedEx_part001(sanitize(input))]
  /\ UNCHANGED <<useScrape, now, cache, puts, last, flightVars, input>>

\* ----------------------------------------------------------------------
\* The text functions of app.js (GET /track/:carrier) on their own: each
\* action applies one of them to the body text in input, once.
\* ----------------------------------------------------------------------

\* lines the body of a tracking page can hold; the last one has a backspace
\* character at both ends
DateLines == <<
  <<"E","n","t","r","e","g","a","d","o"," ","2","6"," ","A","u","g","u","s","t"," ","2","0","2","5","\n">>,
  <<"E","n","t","r","e","g","a"," ","2","6"," ","A","g","o"," ","2","0","2","5","\n">>,
  <<"S","a","l","i","d","a"," ","7"," ","E","N","E","R","O"," ","2","0","2","5","\n">>,
  <<"E","n"," ","c","a","m","i","n","o","\n">>,
  <<"2","7","/","0","8","/","2","0","2","5","\n">>,
  <<"bksp","d","s","M","a","y","s","d","d","d","d","bksp","\n">> >>

\* the body texts: up to MaxLines of the lines, in any order
DateInputs ==
  {Flat([k \in DOMAIN s |-> DateLines[s[k]]]) :
     s \in UNION {[1..n -> 1..Len(DateLines)] : n \in 0..MaxLines}}

\* app.js: extractDate(bodyText || '')
ExtractDate ==
  /\ output = NoOutput
  /\ output' = [op |-> "extractDate", value |-> extractDate(orElse(input, << >>))]
  /\ UNCHANGED <<useScrape, now, cache, puts, last, flightVars, input>>

\* app.js: extractStatus(bodyText || '')
ExtractStatus ==
  /\ output = NoOutput
  /\ output' = [op |-> "extractStatus", value |-> extractStatus(orElse(input, << >>))]
  /\ UNCHANGED <<useScrape, now, cache, puts, last, flightVars, input>>
\* ----------------------------------------------------------------------
\* Specifications
\* ----------------------------------------------------------------------

NextApi ==
  \E carrier \in ApiCarriers, code \in ApiCodes, o \in ApiOutcomes :
    \/ TrackApp(carrier, code, o)
    \/ TrackPart000(carrier, code, o)
    \/ TrackPart001(carrier, code, o)
    \/ TrackServer(carrier, code, o)

SpecApi == Init /\ [][NextApi]_vars

NextTrack ==
  \/ \E r \in TrackRequests, o \in TrackOutcomes, d \in {0, TickMs} :
       TrackCarrier(r[1], r[2], o, d)
  \/ Tick

\* GET /track/:carrier never reads USE_SCRAPE
InitTrack == Init /\ ~useScrape

SpecTrack == InitTrack /\ [][NextTrack]_vars

\* GET /track/:carrier with overlapping requests
NextFlight ==
  \/ \E r \in FlightRequests : TrackBegin(r[1], r[2])
  \/ \E id \in 1..MaxRequests, o \in FlightOutcomes : TrackEnd(id, o)
  \/ Tick

SpecFlight == InitTrack /\ [][NextFlight]_vars

\* every step of a scraper runs under a Playwright timeout, so a scraper
\* that was called settles
SpecFlightFair ==
  SpecFlight /\ \A id \in 1..MaxRequests : WF_vars(\E o \in FlightOutcomes : TrackEnd(id, o))

\* the text functions applied to a page text
NextText == Sanitize \/ ExtractStatusAndEta \/ ScrapeFedEx

InitText ==
  /\ InitServers /\ ~useScrape
  /\ input \in TextInputs
  /\ output = NoOutput

SpecText == InitText /\ [][NextText]_vars

\* the text functions of app.js applied to a body text
NextDate == ExtractDate \/ ExtractStatus

InitDate ==
  /\ InitServers /\ ~useScrape
  /\ input \in DateInputs
  /\ output = NoOutput

SpecDate == InitDate /\ [][NextDate]_vars

Next == NextApi \/ NextTrack \/ NextFlight \/ NextText \/ NextDate

Spec == Init /\ [][Next]_vars

\* ----------------------------------------------------------------------
\* Properties
\* ----------------------------------------------------------------------

\* C1: whenever the scrape fails during a request for a carrier the endpoint
\* supports, with a non-empty code, the answer is still a success (200) that
\* carries the official URL and no extracted field, on every endpoint.
\* GET /track/:carrier answers 500 with the error's message instead.
C1_ScrapeFailureIsLinkOnly ==
  LET supported ==
        CASE last.variant = "track" -> last.carrier \in scrapersOwn
          [] last.variant = "app" -> truthy(officialLink_app(last.carrier, last.code))
          [] last.variant = "part_000" -> truthy(officialLink_part000(last.carrier, last.code))
          [] last.variant = "part_001" -> truthy(officialLink_part001(last.carrier, last.code))
          [] OTHER -> truthy(officialLink_server(last.carrier, last.code))
  IN (/\ last.variant # "none"
      /\ truthy(last.carrier) /\ truthy(trim(last.code))
      /\ supported
      /\ last.scrapeFailed)
     => /\ last.http = 200
        /\ "officialUrl" \in DOMAIN last.body
        /\ \A k \in DOMAIN last.body \
                   {"ok", "carrier", "code", "trackingNumber", "cached", "officialUrl"} :
             last.body[k] = NULL

\* C2: a carrier that is no supported id or alias, with a non-empty code,
\* gets a client error (4xx) without an official URL; no browser is launched,
\* no page fetched, the cache neither read nor written.
\* GET /track/:carrier takes 'constructor' for a scraper (200, and the answer
\* is cached) and fails with 500 on '__proto__'.
C2_UnsupportedIsClientError ==
  LET aliases == {<<"d","h","l">>, <<"f","e","d","e","x">>, <<"u","p","s">>, <<"d","e","l","t","a">>, <<"d","e","l","t","a","-","c","a","r","g","o">>,
                  <<"d","e","l","t","a","c","a","r","g","o">>, <<"e","x","p","e","d","i","t","o","r","s">>}
  IN (/\ last.variant # "none"
      /\ toLowerCase(last.carrier) \notin aliases
      /\ truthy(last.code))
     => /\ last.http \in 400..499
        /\ "officialUrl" \notin DOMAIN last.body
        /\ ~last.launchAttempted
        /\ ~last.fetchAttempted
        /\ last.get.op = "none"
        /\ last.put.op = "none"

\* C3: every known alias of a supported carrier, in any letter case, is
\* accepted and gets the official URL of that carrier, in every variant.
\* app.js (POST /api/track) refuses 'deltacargo'; GET /track/:carrier knows
\* neither an alias nor an upper-case spelling.
C3_AliasesAnyCase ==
  LET aliases == {<<"d","h","l">>, <<"f","e","d","e","x">>, <<"u","p","s">>, <<"d","e","l","t","a">>, <<"d","e","l","t","a","-","c","a","r","g","o">>,
                  <<"d","e","l","t","a","c","a","r","g","o">>, <<"e","x","p","e","d","i","t","o","r","s">>}
      c == toLowerCase(last.carrier)
      id == IF c \in {<<"d","e","l","t","a","-","c","a","r","g","o">>, <<"d","e","l","t","a","c","a","r","g","o">>} THEN <<"d","e","l","t","a">> ELSE c
      link == CASE last.variant = "app" -> officialLink_app(id, last.code)
                [] last.variant = "part_000" -> officialLink_part000(id, last.code)
                [] last.variant = "part_001" -> officialLink_part001(id, last.code)
                [] OTHER -> officialLink_server(id, last.code)
  IN (/\ last.variant # "none"
      /\ c \in aliases
      /\ truthy(last.code))
     => /\ last.http = 200
        /\ last.variant # "track" =>
             "officialUrl" \in DOMAIN last.body /\ last.body["officialUrl"] = link

\* C4: with USE_SCRAPE off, a request the endpoint accepts (supported
\* carrier, non-empty code) is answered 200 with the official URL and every
\* extracted field null, and neither a browser launch nor a page fetch is
\* attempted.  unnamed/part_000 has no such switch and always launches.
C4_DisabledIsLinkOnlyNoBrowser ==
  LET link == CASE last.variant = "app" -> officialLink_app(last.carrier, last.code)
                [] last.variant = "part_000" -> officialLink_part000(last.carrier, last.code)
                [] last.variant = "part_001" -> officialLink_part001(last.carrier, last.code)
                [] OTHER -> officialLink_server(last.carrier, last.code)
  IN (/\ last.variant \in {"app", "part_000", "part_001", "server"}
      /\ ~useScrape
      /\ truthy(last.carrier) /\ truthy(last.code)
      /\ truthy(link))
     => /\ last.http = 200
        /\ "officialUrl" \in DOMAIN last.body /\ last.body["officialUrl"] = link
        /\ \A k \in DOMAIN last.body \ {"ok", "carrier", "code", "officialUrl"} :
             last.body[k] = NULL
        /\ ~last.launchAttempted
        /\ ~last.fetchAttempted

\* C5: a request to GET /track/:carrier whose key was stored by a successful
\* scrape at time t, and which arrives before t + TTL, is answered with the
\* stored result, marked cached, without launching the browser or storing
\* anything.
C5_HitWithinTtl ==
  (/\ last.variant = "track"
   /\ last.get.op = "get"
   /\ last.get.prior.op = "put"
   /\ last.get.prior.value.type = "object"
   /\ last.at < last.get.prior.at + CACHE_TTL_MS)
  => /\ last.http = 200
     /\ last.body["cached"] = TRUE_V
     /\ \A f \in DOMAIN last.get.prior.value.fields :
          last.body[f] = last.get.prior.value.fields[f]
     /\ ~last.launchAttempted
     /\ ~last.fetchAttempted
     /\ last.put.op = "none"

\* C5 witness: a request served from the cache some time after the scrape
\* that stored its result.
C5_Witness ==
  /\ last.variant = "track"
  /\ last.get.op = "get"
  /\ last.get.prior.op = "put"
  /\ last.get.prior.value.type = "object"
  /\ last.get.prior.at < last.at
  /\ last.at < last.get.prior.at + CACHE_TTL_MS
  /\ last.body["cached"] = TRUE_V
  /\ last.body["latest_status"] = <<"E","n","t","r","e","g","a","d","o">>

\* C6: every entry holds the value of the latest setInCache of its key and
\* expires exactly ten minutes after it; a getFromCache of a key less than
\* ten minutes after its latest setInCache returns exactly the value stored,
\* whatever happened to other keys in between.
C6_CacheRoundTrip ==
  /\ \A k \in DOMAIN cache :
       /\ k \in DOMAIN puts
       /\ cache[k].value = puts[k].value
       /\ cache[k].expires = puts[k].at + 10 * 60 * 1000
  /\ (/\ last.variant = "track"
      /\ last.get.op = "get"
      /\ last.get.prior.op = "put"
      /\ last.at < last.get.prior.at + 10 * 60 * 1000)
     => last.get.value = last.get.prior.value

\* C6 witness: a read returns the stored value after time has passed, while
\* another key has an entry of its own.
C6_Witness ==
  /\ last.variant = "track"
  /\ last.get.op = "get"
  /\ last.get.prior.op = "put"
  /\ last.get.prior.at < last.at
  /\ last.get.value = last.get.prior.value
  /\ \E k \in DOMAIN cache : k # last.get.key /\ puts[k].at > last.get.prior.at

\* C7: a getFromCache of an entry at or after its expiry returns null and
\* removes the entry; no value is returned at or after its expiry; and an
\* entry leaves the cache only in a step that reads its own key at or after
\* its expiry.
C7_LazyExpiry ==
  /\ [](last.variant = "track" /\ last.get.op = "get" =>
          /\ (last.get.had /\ last.at >= last.get.prior.at + CACHE_TTL_MS)
               => (last.get.value = NullValue /\ last.get.removed)
          /\ last.get.value # NullValue
               => last.at < last.get.prior.at + CACHE_TTL_MS)
  /\ [][\A k \in DOMAIN cache :
          (k \notin DOMAIN cache' \/ cache'[k] # cache[k]) =>
             /\ last'.variant = "track"
             /\ last'.get.op = "get"
             /\ last'.get.key = k
             /\ last'.get.removed
             /\ last'.at >= cache[k].expires]_vars

\* C7 witness: a read found its entry expired and removed it, and the scrape
\* that followed failed, so the key is gone from the cache.
C7_Witness ==
  /\ last.variant = "track"
  /\ last.get.op = "get"
  /\ last.get.removed
  /\ last.get.key \notin DOMAIN cache

\* C8: a request whose "carrier:code" differs from the key of a live entry
\* only in letter case is served from that entry.
\* The key is built from the carrier as given and the trimmed code, without
\* lowercasing: dhl:ABC misses the entry of dhl:abc.
C8_KeyLowercased ==
  [][(/\ last' # last
      /\ last'.variant = "track"
      /\ last'.get.op = "get")
     => \A k \in DOMAIN cache :
          (toLowerCase(k) = toLowerCase(last'.get.key) /\ now < cache[k].expires)
            => (last'.get.value = cache[k].value /\ last'.body["cached"] = TRUE_V)]_vars

\* C9: the status of a successful answer is null or one of delivered,
\* out_for_delivery, in_transit, picked_up, delayed, unknown; a page that
\* says "Entregado" gives delivered and one that says "In Transit" gives
\* in_transit.  The variants answer with the page's own words.
C9_StatusInVocabulary ==
  LET vocabulary == {<<"d","e","l","i","v","e","r","e","d">>, <<"o","u","t","_","f","o","r","_","d","e","l","i","v","e","r","y">>, <<"i","n","_","t","r","a","n","s","i","t">>,
                     <<"p","i","c","k","e","d","_","u","p">>, <<"d","e","l","a","y","e","d">>, <<"u","n","k","n","o","w","n">>}
      status == IF "status" \in DOMAIN last.body THEN last.body["status"]
                ELSE IF "latest_status" \in DOMAIN last.body
                     THEN last.body["latest_status"] ELSE NULL
      text == toLowerCase(last.page.bodyText)
  IN (last.variant # "none" /\ last.http = 200)
     => /\ status = NULL \/ status \in vocabulary
        /\ includes(text, <<"e","n","t","r","e","g","a","d","o">>) => status = <<"d","e","l","i","v","e","r","e","d">>
        /\ includes(text, <<"i","n"," ","t","r","a","n","s","i","t">>) => status = <<"i","n","_","t","r","a","n","s","i","t">>

\* C10: when the page read has none of the status keywords the status is
\* null, and the status is "unknown" only when a keyword was found.
\* GET /track/:carrier answers 'Unknown' exactly when no keyword was found.
C10_NullVersusUnknown ==
  LET text == toLowerCase(last.page.bodyText)
      keywordFound == \E j \in 1..Len(statuses) : includes(text, toLowerCase(statuses[j]))
      status == last.body["latest_status"]
  IN (/\ last.variant = "track"
      /\ last.http = 200
      /\ last.page # NoPage)
     => /\ ~keywordFound => status = NULL
        /\ toLowerCase(status) = <<"u","n","k","n","o","w","n">> => keywordFound


\* C11: in every answer built from a page that a field scraper read, each
\* field the scraper returns is present in the answer (null when no pattern
\* of the field matched), never left out.  unnamed/part_001 ends several
\* fields without "|| null": cap(undefined) is undefined and res.json drops
\* the key.
C11_NoMatchIsNull ==
  LET n == scraperFor(last.carrier)
      fields == CASE last.variant = "app" -> DOMAIN scraped_app[last.page]
                  [] last.variant = "part_001" -> DOMAIN scraped_part001[n][last.page]
                  [] OTHER -> DOMAIN scraped_server[n][last.page]
  IN (/\ last.variant \in {"app", "part_001", "server"}
      /\ last.http = 200
      /\ last.page \in Pages)
     => \A k \in fields : k \in DOMAIN last.body

\* C12: sanitize is idempotent: sanitizing a sanitized text changes
\* nothing.  Removing a boilerplate phrase that stands between two words
\* leaves two spaces, and removing one that stands inside another joins
\* the halves into a new phrase; the second pass changes both.
C12_SanitizeIdempotent ==
  output.op = "sanitize" => sanitize(output.value) = output.value

\* C13: the ETA is the date of the first pattern, in list order, that
\* matches: a text with "Entrega estimada: 27/08/2025" yields "27/08/2025"
\* (also when the English line stands before it in the text), a text with
\* only "Estimated delivery: August 27, 2025" yields "August 27, 2025", and
\* a text with neither yields null; never the labelling word.  Checked for
\* extractStatusAndEta of unnamed/part_000 and scrapeFedEx of
\* unnamed/part_001.
C13_EtaLastGroup ==
  LET spanish == includes(input, <<"E","n","t","r","e","g","a"," ","e","s","t","i","m","a","d","a",":"," ","2","7","/","0","8","/","2","0","2","5">>)
      english == includes(input, <<"E","s","t","i","m","a","t","e","d"," ","d","e","l","i","v","e","r","y",":"," ","A","u","g","u","s","t"," ","2","7",","," ","2","0","2","5">>)
      expected == IF spanish THEN <<"2","7","/","0","8","/","2","0","2","5">>
                  ELSE IF english THEN <<"A","u","g","u","s","t"," ","2","7",","," ","2","0","2","5">> ELSE NULL
  IN /\ output.op = "extractStatusAndEta" => output.value.etaText = expected
     /\ output.op = "scrapeFedEx" => output.value.eta = expected

\* C13 witness: extractStatusAndEta on a text whose English ETA line stands
\* before the Spanish one returned the Spanish date, the first pattern of
\* the list.
C13_Witness ==
  /\ output.op = "extractStatusAndEta"
  /\ input = <<"E","s","t","i","m","a","t","e","d"," ","d","e","l","i","v","e","r","y",":"," ","A","u","g","u","s","t"," ","2","7",","," ","2","0","2","5","\n","E","n","t","r","e","g","a"," ","e","s","t","i","m","a","d","a",":"," ","2","7","/","0","8","/","2","0","2","5","\n">>
  /\ output.value.etaText = <<"2","7","/","0","8","/","2","0","2","5">>

\* C14: every answer to a request for a supported carrier (any alias, any
\* letter case) with a non-empty code carries an official URL that contains
\* the percent-encoded code.  The Expeditors URL is the bare tracking page
\* in all four officialLink functions, and GET /track/:carrier sends no URL.
C14_UrlCarriesCode ==
  LET aliases == {<<"d","h","l">>, <<"f","e","d","e","x">>, <<"u","p","s">>, <<"d","e","l","t","a">>, <<"d","e","l","t","a","-","c","a","r","g","o">>,
                  <<"d","e","l","t","a","c","a","r","g","o">>, <<"e","x","p","e","d","i","t","o","r","s">>}
  IN (/\ last.variant \in {"app", "part_000", "part_001", "server"}
      /\ toLowerCase(last.carrier) \in aliases
      /\ truthy(last.code))
     => /\ "officialUrl" \in DOMAIN last.body
        /\ truthy(last.body["officialUrl"])
        /\ includes(last.body["officialUrl"], encodeURIComponent(last.code))

\* C15: a request whose carrier or code is missing or empty is answered with
\* the missing-parameter error (400), whatever the carrier, and neither the
\* cache nor the browser is used for it.  GET /track/:carrier looks the
\* carrier up first: an unknown carrier without a number gets 404
\* "Unsupported carrier".
C15_ValidationFirst ==
  (/\ last.variant # "none"
   /\ ~truthy(last.carrier) \/ ~truthy(last.code))
  => /\ last.http = 400
     /\ last.body["error"] \in {MissingParams.error,
                                <<"M","i","s","s","i","n","g"," ","\"","n","u","m","b","e","r","\""," ","q","u","e","r","y"," ","p","a","r","a","m","e","t","e","r">>}
     /\ last.get.op = "none"
     /\ last.put.op = "none"
     /\ ~last.launchAttempted

\* C16: the body of a 5xx answer is the same fixed object whatever the
\* fault was: { ok: false, error: "Error interno" } on the /api/track
\* servers, { error: "Tracking failed" } on GET /track/:carrier.  The
\* latter sends err.message when the error has one.
C16_GenericServerError ==
  (last.variant # "none" /\ last.http \in 500..599)
  => last.body = IF last.variant = "track"
                 THEN [error |-> <<"T","r","a","c","k","i","n","g"," ","f","a","i","l","e","d">>]
                 ELSE [ok |-> FALSE_V, error |-> <<"Error interno">>]

\* C17: with requests that overlap on the shared cache,
\*  - every request that waits for its scraper is answered in the end, and
\*    every answer is complete (the result fields, or an error);
\*  - every cache entry holds the result that a request for that very key
\*    got from its finished scrape, and expires ten minutes after that
\*    request stored it;
\*  - a step changes or removes the entry of a key only when it is a step of
\*    a request for that key;
\*  - no key has more scraper calls than requests.
C17_OverlapOnlyDuplicates ==
  /\ [](LET ids == DOMAIN pending \cup DOMAIN answers
            keyOf(id) == IF id \in DOMAIN pending THEN pending[id].key
                         ELSE answers[id].key
            scraped(id) == id \in DOMAIN pending \/ answers[id].launchAttempted
            complete(a) ==
              IF a.http = 200
              THEN {"carrier", "trackingNumber", "cached", "latest_status",
                    "latest_date"} \subseteq DOMAIN a.body
              ELSE a.http \in {400, 404, 500} /\ DOMAIN a.body = {"error"}
        IN /\ \A id \in DOMAIN answers : complete(answers[id])
           /\ \A k \in DOMAIN cache :
                \E id \in DOMAIN answers :
                  /\ answers[id].key = k
                  /\ answers[id].put.op = "put"
                  /\ answers[id].put.value = cache[k].value
                  /\ cache[k].value.fields = scraped_track[answers[id].page]
                  /\ cache[k].expires = answers[id].put.at + CACHE_TTL_MS
           /\ \A k \in {keyOf(id) : id \in ids} :
                Cardinality({id \in ids : keyOf(id) = k /\ scraped(id)})
                  <= Cardinality({id \in ids : keyOf(id) = k}))
  /\ [][\A k \in DOMAIN cache :
          (k \notin DOMAIN cache' \/ cache'[k] # cache[k])
          => \/ \E id \in DOMAIN answers' \ DOMAIN answers : answers'[id].key = k
             \/ \E id \in DOMAIN pending' \ DOMAIN pending : pending'[id].key = k]_vars
  /\ \A id \in 1..MaxRequests :
       (id \in DOMAIN pending) ~> (id \in DOMAIN answers)

\* C17 witness: two requests for one key were in flight together, both
\* scraped and both stored their result, the second some time after the
\* first; the entry is the second one's.
C17_Witness ==
  \E i, j \in DOMAIN answers :
    /\ i < j
    /\ answers[i].key = answers[j].key
    /\ i \notin answers[j].before
    /\ answers[i].put.op = "put" /\ answers[j].put.op = "put"
    /\ answers[j].body["cached"] = FALSE_V
    /\ answers[i].put.at < answers[j].put.at
    /\ answers[j].key \in DOMAIN cache
    /\ cache[answers[j].key].expires = answers[j].put.at + CACHE_TTL_MS

\* C18 as stated: a request whose scraper call fails leaves the cache exactly
\* as it was; a request whose scraper call returns stores the result under
\* its key, whatever was extracted; nothing else writes.  The read at the
\* start of the request removes the expired entry of its key before the
\* scraper is called, so the cache does change when the call then fails.
C18_WriteIffFetchSucceeds ==
  /\ [](last.variant = "track" =>
          /\ (last.http = 200 /\ last.body["cached"] = FALSE_V) =>
               /\ last.put.op = "put"
               /\ last.put.key \in DOMAIN cache
               /\ cache[last.put.key] = [value |-> last.put.value,
                                         expires |-> last.put.at + CACHE_TTL_MS]
          /\ last.put.op = "put" =>
               /\ ~last.scrapeFailed
               /\ last.http = 200 /\ last.body["cached"] = FALSE_V)
  /\ [][(last'.variant = "track" /\ last'.scrapeFailed)
          => cache' = cache /\ puts' = puts]_vars

\* C18, amended: a request whose scraper call fails stores nothing: every
\* entry afterwards is an entry from before, unchanged, and the only entry
\* that can be gone is the expired one of the request's own key; the next
\* request for that key calls the scraper again.  A request whose scraper
\* call returns stores the result under its key, whatever was extracted
\* (also "Unknown" with no date); nothing else writes.
C18_FailureStoresNothing ==
  /\ [](last.variant = "track" =>
          /\ (last.http = 200 /\ last.body["cached"] = FALSE_V) =>
               /\ last.put.op = "put"
               /\ last.put.key \in DOMAIN cache
               /\ cache[last.put.key] = [value |-> last.put.value,
                                         expires |-> last.put.at + CACHE_TTL_MS]
          /\ last.put.op = "put" =>
               /\ ~last.scrapeFailed
               /\ last.http = 200 /\ last.body["cached"] = FALSE_V)
  /\ [][(last'.variant = "track" /\ last'.scrapeFailed)
          => /\ puts' = puts
             /\ \A k \in DOMAIN cache' : k \in DOMAIN cache /\ cache'[k] = cache[k]
             /\ \A k \in DOMAIN cache \ DOMAIN cache' :
                  k = last'.get.key /\ now >= cache[k].expires]_vars
  /\ [][(/\ last.variant = "track" /\ last.scrapeFailed
         /\ last.carrier \in scrapersOwn
         /\ last'.variant = "track" /\ last'.get.op = "get"
         /\ last'.get.key = last.get.key)
          => last'.launchAttempted]_vars

\* C18 witness: the scraper call failed in a request whose read had just
\* removed the expired entry of its key.
C18_Witness ==
  /\ last.variant = "track"
  /\ last.carrier \in scrapersOwn
  /\ last.scrapeFailed
  /\ last.get.removed
  /\ last.get.key \notin DOMAIN cache

\* C19: every browser launched for a scrape is closed before the request
\* that launched it sends its response, on every path (callback success,
\* callback failure, failure of context or page creation after launch,
\* failure while closing the context): no answered request has left the
\* browser it launched unclosed.
C19_BrowserAlwaysClosed ==
  (last # NoRequest /\ last.launchAttempted) => last.browser # "leaked"

\* C20: the FedEx destination prefers the delivered banner.  A text with
\* the banner "ENTREGADO MONTERREY" at a line start yields "MONTERREY", also
\* when "EN CAMINO PUEBLA" or "TO MAIN CONTENT" stands before it; a text
\* without the delivered banner yields the in-transit place "PUEBLA" when it
\* has "EN CAMINO PUEBLA"; a text whose only candidate is the TO line
\* capturing "MAIN CONTENT", leftover boilerplate, yields null; and a text
\* with no candidate yields no destination.
C20_DeliveredBannerFirst ==
  LET delivered == includes(input, <<"E","N","T","R","E","G","A","D","O"," ","M","O","N","T","E","R","R","E","Y","\n">>)
      transit == includes(input, <<"E","N"," ","C","A","M","I","N","O"," ","P","U","E","B","L","A","\n">>)
      to == includes(input, <<"T","O"," ","M","A","I","N"," ","C","O","N","T","E","N","T","\n">>)
  IN output.op = "scrapeFedEx" =>
       CASE delivered -> output.value.destination = <<"M","O","N","T","E","R","R","E","Y">>
         [] ~delivered /\ transit -> output.value.destination = <<"P","U","E","B","L","A">>
         [] ~delivered /\ ~transit /\ to -> output.value.destination = NULL
         [] OTHER -> ~truthy(output.value.destination)

\* C20 witness: scrapeFedEx on a text whose in-transit banner stands before
\* the delivered banner returned the place of the delivered banner.
C20_Witness ==
  /\ output.op = "scrapeFedEx"
  /\ input = <<"E","N"," ","C","A","M","I","N","O"," ","P","U","E","B","L","A","\n","E","N","T","R","E","G","A","D","O"," ","M","O","N","T","E","R","R","E","Y","\n">>
  /\ output.value.destination = <<"M","O","N","T","E","R","R","E","Y">>

\* C21: extractDate returns the first day + word-month + 4-digit-year
\* substring of the text, for English and Spanish month names in full or
\* abbreviated form and in any letter case ('26 August 2025', '26 Ago 2025',
\* '7 ENERO 2025'), and returns null only when the text has no such date.
C21_FirstWordMonthDate ==
  LET m == match(input, Cat(<<Wb, Grp(1, Rep(Cls(Digit), 1, 2)), Rep(Cls(WhiteSpace), 1, Inf), Grp(2, Alt(<<LitI(<<"J","a","n","u","a","r","y">>), LitI(<<"F","e","b","r","u","a","r","y">>), LitI(<<"M","a","r","c","h">>), LitI(<<"A","p","r","i","l">>), LitI(<<"M","a","y">>), LitI(<<"J","u","n","e">>), LitI(<<"J","u","l","y">>), LitI(<<"A","u","g","u","s","t">>), LitI(<<"S","e","p","t","e","m","b","e","r">>), LitI(<<"O","c","t","o","b","e","r">>), LitI(<<"N","o","v","e","m","b","e","r">>), LitI(<<"D","e","c","e","m","b","e","r">>), LitI(<<"E","n","e","r","o">>), LitI(<<"F","e","b","r","e","r","o">>), LitI(<<"M","a","r","z","o">>), LitI(<<"A","b","r","i","l">>), LitI(<<"M","a","y","o">>), LitI(<<"J","u","n","i","o">>), LitI(<<"J","u","l","i","o">>), LitI(<<"A","g","o","s","t","o">>), LitI(<<"S","e","p","t","i","e","m","b","r","e">>), LitI(<<"O","c","t","u","b","r","e">>), LitI(<<"N","o","v","i","e","m","b","r","e">>), LitI(<<"D","i","c","i","e","m","b","r","e">>), LitI(<<"J","a","n">>), LitI(<<"F","e","b">>), LitI(<<"M","a","r">>), LitI(<<"A","p","r">>), LitI(<<"M","a","y">>), LitI(<<"J","u","n">>), LitI(<<"J","u","l">>), LitI(<<"A","u","g">>), LitI(<<"S","e","p">>), LitI(<<"O","c","t">>), LitI(<<"N","o","v">>), LitI(<<"D","e","c">>), LitI(<<"E","n","e">>), LitI(<<"F","e","b">>), LitI(<<"M","a","r">>), LitI(<<"A","b","r">>), LitI(<<"M","a","y">>), LitI(<<"J","u","n">>), LitI(<<"J","u","l">>), LitI(<<"A","g","o">>), LitI(<<"S","e","p">>), LitI(<<"O","c","t">>), LitI(<<"N","o","v">>), LitI(<<"D","i","c">>)>>)), Rep(Cls(WhiteSpace), 1, Inf), Grp(3, Rep(Cls(Digit), 4, 4)), Wb>>))
  IN output.op = "extractDate" =>
       output.value = IF m.found THEN m.g0 ELSE NULL

====
